---- MODULE Spec2Model ----
(***************************************************************************)
(* Model of the geocoding pass (2_geocode.py) and of the grouping pass     *)
(* (3_group_locations.py) of the NSW food penalty map pipeline.            *)
(*                                                                         *)
(* Representation.                                                         *)
(*  - A Python str is a sequence of code points (32 is " ", 65 is "A").    *)
(*    None and "" are both falsy for every test the two scripts make on a  *)
(*    name, a party_served or an address text, and are both modelled by    *)
(*    the empty sequence.                                                  *)
(*  - An optional number (lat, lon) is <<>> for None and <<v>> for v.      *)
(*  - A coordinate is an integer count of half-epsilons (0.00005 degree),  *)
(*    so COORDINATE_EPSILON is 2 and closeness is not transitive.          *)
(*  - A similarity is an exact fraction <<num, den>>; thresholds are in    *)
(*    hundredths.                                                          *)
(***************************************************************************)
EXTENDS Integers, Sequences, FiniteSets, TLC

(***************************************************************************)
(* Python str primitives                                                   *)
(***************************************************************************)

\* str.isspace() characters of the ASCII range: \t \n \v \f \r FS GS RS US and space
Whitespace == {9, 10, 11, 12, 13, 28, 29, 30, 31, 32}

None == <<>>

RECURSIVE LStrip(_)
LStrip(s) ==
    IF s = <<>> THEN <<>>
    ELSE IF Head(s) \in Whitespace THEN LStrip(Tail(s)) ELSE s

RECURSIVE RStrip(_)
RStrip(s) ==
    IF s = <<>> THEN <<>>
    ELSE IF s[Len(s)] \in Whitespace THEN RStrip(SubSeq(s, 1, Len(s) - 1)) ELSE s

\* str.strip()
Strip(s) == RStrip(LStrip(s))

UpperChar(c) == IF c \in 97..122 THEN c - 32 ELSE c

\* str.upper() on ASCII text
Upper(s) == IF s = <<>> THEN <<>> ELSE [i \in 1..Len(s) |-> UpperChar(s[i])]

StartsWith(s, p) == Len(p) <= Len(s) /\ SubSeq(s, 1, Len(p)) = p

\* str.replace(p, ""): every non-overlapping occurrence of p, left to right
RECURSIVE Remove(_, _)
Remove(s, p) ==
    IF s = <<>> THEN <<>>
    ELSE IF StartsWith(s, p) THEN Remove(SubSeq(s, Len(p) + 1, Len(s)), p)
    ELSE <<Head(s)>> \o Remove(Tail(s), p)

\* p in s
Contains(s, p) == \E i \in 0..(Len(s) - Len(p)) : SubSeq(s, i + 1, i + Len(p)) = p

\* a < b for str: lexicographic on code points
RECURSIVE StrLess(_, _)
StrLess(a, b) ==
    IF b = <<>> THEN FALSE
    ELSE IF a = <<>> THEN TRUE
    ELSE IF Head(a) # Head(b) THEN Head(a) < Head(b)
    ELSE StrLess(Tail(a), Tail(b))

Max(a, b) == IF a >= b THEN a ELSE b
Min(a, b) == IF a <= b THEN a ELSE b
Abs(x) == IF x < 0 THEN 0 - x ELSE x

(***************************************************************************)
(* 3_group_locations.py: constants and pure functions                      *)
(***************************************************************************)

\* 0.0001 degree, in half-epsilons
COORDINATE_EPSILON == 2
\* 0.60, in hundredths
NAME_SIMILARITY_THRESHOLD_EXACT_COORDS == 60
\* 0.85, in hundredths
NAME_SIMILARITY_THRESHOLD == 85

normalize_name(name) == IF name # <<>> THEN Upper(Strip(name)) ELSE <<>>

\* " PTY LTD", " PTY. LTD.", " PTY", " LTD", " LIMITED"
SUFFIX_PTY_LTD == <<32, 80, 84, 89, 32, 76, 84, 68>>
SUFFIX_PTY_DOT_LTD_DOT == <<32, 80, 84, 89, 46, 32, 76, 84, 68, 46>>
SUFFIX_PTY == <<32, 80, 84, 89>>
SUFFIX_LTD == <<32, 76, 84, 68>>
SUFFIX_LIMITED == <<32, 76, 73, 77, 73, 84, 69, 68>>

normalize_party_served(party) ==
    IF party = <<>> THEN <<>>
    ELSE LET n0 == Upper(Strip(party))
             n1 == Remove(Remove(Remove(n0, SUFFIX_PTY_LTD), SUFFIX_PTY_DOT_LTD_DOT), SUFFIX_PTY)
             n2 == Remove(Remove(n1, SUFFIX_LTD), SUFFIX_LIMITED)
         IN  Strip(n2)

\* difflib.SequenceMatcher.find_longest_match over the whole of a and b (no junk:
\* isjunk is None and autojunk only acts on sequences of 200 or more elements):
\* the longest common block, of those the one starting earliest in a, of those
\* the one starting earliest in b; <<i, j, k>> with k = 0 when nothing matches.
find_longest_match(a, b) ==
    LET Blocks == {t \in (1..Len(a)) \X (1..Len(b)) \X (1..Min(Len(a), Len(b))) :
                      /\ t[1] + t[3] - 1 <= Len(a)
                      /\ t[2] + t[3] - 1 <= Len(b)
                      /\ SubSeq(a, t[1], t[1] + t[3] - 1) = SubSeq(b, t[2], t[2] + t[3] - 1)}
    IN  IF Blocks = {} THEN <<1, 1, 0>>
        ELSE CHOOSE t \in Blocks :
               \A u \in Blocks :
                  \/ t[3] > u[3]
                  \/ t[3] = u[3] /\ t[1] < u[1]
                  \/ t[3] = u[3] /\ t[1] = u[1] /\ t[2] <= u[2]

\* Sum of the sizes of SequenceMatcher.get_matching_blocks(): the longest block,
\* then recursively the pieces to its left and to its right.
RECURSIVE matching_size(_, _)
matching_size(a, b) ==
    IF a = <<>> \/ b = <<>> THEN 0
    ELSE LET m == find_longest_match(a, b)
             i == m[1]  j == m[2]  k == m[3]
         IN  IF k = 0 THEN 0
             ELSE k + matching_size(SubSeq(a, 1, i - 1), SubSeq(b, 1, j - 1))
                    + matching_size(SubSeq(a, i + k, Len(a)), SubSeq(b, j + k, Len(b)))

\* SequenceMatcher(None, a, b).ratio() = 2.0 * matches / (len(a) + len(b))
ratio(a, b) == <<2 * matching_size(a, b), Len(a) + Len(b)>>

\* name_similarity with shorter / longer returned as it is on containment
name_similarity_no_floor(name1, name2) ==
    LET norm1 == normalize_name(name1)
        norm2 == normalize_name(name2)
    IN  IF norm1 = <<>> \/ norm2 = <<>> THEN <<0, 1>>
        ELSE IF Contains(norm2, norm1) \/ Contains(norm1, norm2)
             THEN <<Min(Len(norm1), Len(norm2)), Max(Len(norm1), Len(norm2))>>
             ELSE ratio(norm1, norm2)

\* name_similarity without the test of lines 86-87
name_similarity_no_empty_test(name1, name2) ==
    LET norm1 == normalize_name(name1)
        norm2 == normalize_name(name2)
    IN  IF Contains(norm2, norm1) \/ Contains(norm1, norm2)
        THEN LET longer == Max(Len(norm1), Len(norm2))
                 shorter == Min(Len(norm1), Len(norm2))
             IN  IF longer > 0
                 THEN (IF 10 * shorter >= 7 * longer THEN <<shorter, longer>> ELSE <<7, 10>>)
                 ELSE <<1, 1>>
        ELSE ratio(norm1, norm2)

\* The fraction returned by name_similarity(name1, name2)
name_similarity(name1, name2) ==
    LET norm1 == normalize_name(name1)
        norm2 == normalize_name(name2)
    IN  IF norm1 = <<>> \/ norm2 = <<>> THEN <<0, 1>>
        ELSE IF Contains(norm2, norm1) \/ Contains(norm1, norm2)
             THEN LET longer == Max(Len(norm1), Len(norm2))
                      shorter == Min(Len(norm1), Len(norm2))
                  IN  \* max(0.70, shorter / longer)
                      IF 10 * shorter >= 7 * longer THEN <<shorter, longer>> ELSE <<7, 10>>
             ELSE ratio(norm1, norm2)

\* similarity >= threshold with > in place of >=
AtLeastStrict(similarity, threshold) == 100 * similarity[1] > threshold * similarity[2]

\* similarity >= threshold, threshold in hundredths
AtLeast(similarity, threshold) == 100 * similarity[1] >= threshold * similarity[2]

coordinates_match(lat1, lon1, lat2, lon2) ==
    Abs(lat1 - lat2) < COORDINATE_EPSILON /\ Abs(lon1 - lon2) < COORDINATE_EPSILON


\* party_match of lines 171-176: both present and equal after normalisation
party_match(party_served, group_party_served) ==
    /\ party_served # <<>>
    /\ group_party_served # <<>>
    /\ LET norm_party1 == normalize_party_served(party_served)
           norm_party2 == normalize_party_served(group_party_served)
       IN  norm_party1 # <<>> /\ norm_party2 # <<>> /\ norm_party1 = norm_party2

\* party_mismatch of lines 193-198: both present and different after normalisation
party_mismatch(party_served, group_party_served) ==
    /\ party_served # <<>>
    /\ group_party_served # <<>>
    /\ LET norm_party1 == normalize_party_served(party_served)
           norm_party2 == normalize_party_served(group_party_served)
       IN  norm_party1 # <<>> /\ norm_party2 # <<>> /\ norm_party1 # norm_party2

\* threshold of line 189 with the threshold of line 32 in both cases
threshold_for_always_high(coords_match) == NAME_SIMILARITY_THRESHOLD

\* threshold of line 189
threshold_for(coords_match) ==
    IF coords_match THEN NAME_SIMILARITY_THRESHOLD_EXACT_COORDS ELSE NAME_SIMILARITY_THRESHOLD

(***************************************************************************)
(* 2_geocode.py: pure functions                                            *)
(***************************************************************************)

\* re.sub(r'\s+', ' ', s): every run of whitespace becomes one space
RECURSIVE CollapseWhitespace(_)
CollapseWhitespace(s) ==
    IF s = <<>> THEN <<>>
    ELSE IF Head(s) \in Whitespace
         THEN <<32>> \o CollapseWhitespace(LStrip(s))
         ELSE <<Head(s)>> \o CollapseWhitespace(Tail(s))

normalize_address(address) == CollapseWhitespace(Upper(Strip(address)))

\* set(',/-\t\n\r ')
special_chars == {44, 47, 45, 9, 10, 13, 32}

\* The characters of the class [,\s/\-]
TokenDelimiters == {44, 47, 45} \cup Whitespace

\* len(tokens) of lines 52-53: the maximal runs of characters outside the class
token_count(s) ==
    Cardinality({i \in 1..Len(s) :
                    s[i] \notin TokenDelimiters /\ (i = 1 \/ s[i - 1] \in TokenDelimiters)})

\* The scan of lines 46-63 with a minimum of 3 tokens in place of 4
RECURSIVE scan_variants_three_tokens(_, _, _)
scan_variants_three_tokens(full_address, current, i) ==
    IF i >= Len(current) THEN <<>>
    ELSE IF current[i + 1] \in special_chars
         THEN LET remaining == Strip(SubSeq(current, i + 2, Len(current)))
              IN  IF token_count(remaining) >= 3
                  THEN (IF remaining # <<>> /\ remaining # full_address
                        THEN <<remaining>> ELSE <<>>)
                       \o scan_variants_three_tokens(full_address, remaining, 0)
                  ELSE <<>>
         ELSE scan_variants_three_tokens(full_address, current, i + 1)

\* The while loop of lines 46-63 from position i (0-based) of current: the
\* variants it appends
RECURSIVE scan_variants(_, _, _)
scan_variants(full_address, current, i) ==
    IF i >= Len(current) THEN <<>>
    ELSE IF current[i + 1] \in special_chars
         THEN LET remaining == Strip(SubSeq(current, i + 2, Len(current)))
              IN  IF token_count(remaining) >= 4
                  THEN (IF remaining # <<>> /\ remaining # full_address
                        THEN <<remaining>> ELSE <<>>)
                       \o scan_variants(full_address, remaining, 0)
                  ELSE <<>>
         ELSE scan_variants(full_address, current, i + 1)

\* Lines 64-70 with seen holding the variants themselves, not their normalised form
RECURSIVE unique_variants_by_text(_, _)
unique_variants_by_text(collected, seen) ==
    IF collected = <<>> THEN <<>>
    ELSE IF Head(collected) \notin seen
         THEN <<Head(collected)>> \o unique_variants_by_text(Tail(collected), seen \cup {Head(collected)})
         ELSE unique_variants_by_text(Tail(collected), seen)

\* Lines 64-70: keep the first variant of every normalised form
RECURSIVE unique_variants(_, _)
unique_variants(collected, seen) ==
    IF collected = <<>> THEN <<>>
    ELSE LET normalized == normalize_address(Head(collected))
         IN  IF normalized \notin seen
             THEN <<Head(collected)>> \o unique_variants(Tail(collected), seen \cup {normalized})
             ELSE unique_variants(Tail(collected), seen)

\* Lines 39-72 with the list started from the trimmed address
generate_address_variants_trimmed(full_address) ==
    unique_variants(<<Strip(full_address)>> \o scan_variants(full_address, full_address, 0), {})

\* Line 39 and lines 43-63: the list before lines 64-70 remove the duplicates
collected_variants(full_address) ==
    <<full_address>> \o scan_variants(full_address, full_address, 0)

generate_address_variants(full_address) ==
    unique_variants(collected_variants(full_address), {})

\* max_retries of geocode_address
MAX_RETRIES == 3

\* What geocoder.geocode does on one attempt: it returns a location, returns
\* None, raises GeocoderTimedOut or GeocoderServiceError, or raises something else
ProviderResponses == {"location", "none", "timeout", "service_error", "other_error"}

\* geocode_address (lines 75-96) when the provider answers the successive
\* attempts as in responses and knows the address at location: the result
\* (None or <<lat, lon>>), the attempts made and the seconds slept
RECURSIVE geocode_attempt_uncaught(_, _, _, _)
geocode_attempt_uncaught(responses, location, attempt, slept) ==
    IF attempt >= MAX_RETRIES
    THEN [result |-> None, attempts |-> attempt, slept |-> slept, raised |-> FALSE]
    ELSE LET response == responses[attempt + 1]
         IN  IF response = "location"
             THEN [result |-> location, attempts |-> attempt + 1, slept |-> slept, raised |-> FALSE]
             ELSE IF response \in {"timeout", "service_error"}
             THEN IF attempt < MAX_RETRIES - 1
                  THEN geocode_attempt_uncaught(responses, location, attempt + 1,
                                                slept + (attempt + 1) * 2)
                  ELSE [result |-> None, attempts |-> attempt + 1, slept |-> slept,
                        raised |-> FALSE]
             ELSE [result |-> None, attempts |-> attempt + 1, slept |-> slept,
                   raised |-> response = "other_error"]

\* geocode_address that waits 2 seconds before every retry
RECURSIVE geocode_attempt_constant_wait(_, _, _, _)
geocode_attempt_constant_wait(responses, location, attempt, slept) ==
    IF attempt >= MAX_RETRIES
    THEN [result |-> None, attempts |-> attempt, slept |-> slept, raised |-> FALSE]
    ELSE LET response == responses[attempt + 1]
         IN  IF response = "location"
             THEN [result |-> location, attempts |-> attempt + 1, slept |-> slept, raised |-> FALSE]
             ELSE IF response \in {"timeout", "service_error"}
             THEN IF attempt < MAX_RETRIES - 1
                  THEN geocode_attempt_constant_wait(responses, location, attempt + 1, slept + 2)
                  ELSE [result |-> None, attempts |-> attempt + 1, slept |-> slept,
                        raised |-> FALSE]
             ELSE [result |-> None, attempts |-> attempt + 1, slept |-> slept, raised |-> FALSE]

\* raised says whether an exception leaves geocode_address: every exception of
\* geocoder.geocode is caught at line 83 or line 92, so it never does
RECURSIVE geocode_attempt(_, _, _, _)
geocode_attempt(responses, location, attempt, slept) ==
    IF attempt >= MAX_RETRIES
    THEN [result |-> None, attempts |-> attempt, slept |-> slept, raised |-> FALSE]
    ELSE LET response == responses[attempt + 1]
         IN  IF response = "location"
             THEN [result |-> location, attempts |-> attempt + 1, slept |-> slept, raised |-> FALSE]
             ELSE IF response \in {"timeout", "service_error"}
             THEN IF attempt < MAX_RETRIES - 1
                  THEN geocode_attempt(responses, location, attempt + 1, slept + (attempt + 1) * 2)
                  ELSE [result |-> None, attempts |-> attempt + 1, slept |-> slept,
                        raised |-> FALSE]
             ELSE [result |-> None, attempts |-> attempt + 1, slept |-> slept, raised |-> FALSE]

geocode_address(responses, location) == geocode_attempt(responses, location, 0, 0)

(***************************************************************************)
(* Input pools.  A notice is [name, party_served, full, lat, lon,          *)
(* date_issued]; its key in penalty_notices.json is its position.          *)
(***************************************************************************)

\* "ABCDE", "ABCXY" (ratio 0.6 with ABCDE), "abc " (normalises to ABC, contained
\* in both: 0.7), "XYZ" (0 with ABCDE, 0.5 with ABCXY), and two names of 20
\* letters sharing their first 13 (ratio 26/40 = 0.65)
NAME_ABCDE == <<65, 66, 67, 68, 69>>
NAME_ABCXY == <<65, 66, 67, 88, 89>>
NAME_abc_ == <<97, 98, 99, 32>>
NAME_XYZ == <<88, 89, 90>>
NAME_A13B7 == [i \in 1..20 |-> IF i <= 13 THEN 65 ELSE 66]
NAME_A13C7 == [i \in 1..20 |-> IF i <= 13 THEN 65 ELSE 67]
NamePool == {<<>>, NAME_ABCDE, NAME_ABCXY, NAME_abc_, NAME_XYZ, NAME_A13B7, NAME_A13C7}

\* "A LTD" and "a" (both normalise to A), "B", and " " (present but empty once
\* normalised)
PARTY_A_LTD == <<65, 32, 76, 84, 68>>
PARTY_a == <<97>>
PARTY_B == <<66>>
PARTY_BLANK == <<32>>

\* date_issued "1" and "2"
DATE_1 == <<49>>
DATE_2 == <<50>>

\* address.full "A B C D"
FULL_ABCD == <<65, 32, 66, 32, 67, 32, 68>>

Notice(name, party_served, full, lat, lon, date_issued) ==
    [name |-> name, party_served |-> party_served, full |-> full,
     lat |-> lat, lon |-> lon, date_issued |-> date_issued]

GroupingPool ==
    { Notice(NAME_ABCDE, <<>>,        FULL_ABCD, <<0>>, <<0>>, DATE_2),
      Notice(NAME_ABCXY, <<>>,        FULL_ABCD, <<0>>, <<0>>, DATE_1),
      Notice(NAME_XYZ,   PARTY_A_LTD, FULL_ABCD, <<0>>, <<0>>, None),
      Notice(NAME_ABCDE, PARTY_a,     FULL_ABCD, <<0>>, <<0>>, DATE_1),
      Notice(NAME_ABCDE, PARTY_B,     FULL_ABCD, <<0>>, <<0>>, DATE_2),
      Notice(NAME_ABCDE, PARTY_BLANK, FULL_ABCD, <<0>>, <<0>>, None),
      Notice(NAME_ABCDE, <<>>,        FULL_ABCD, <<1>>, <<0>>, DATE_1),
      Notice(NAME_ABCDE, <<>>,        FULL_ABCD, <<2>>, <<0>>, None),
      Notice(NAME_ABCDE, <<>>,        FULL_ABCD, <<0>>, <<2>>, DATE_1),
      Notice(NAME_ABCDE, <<>>,        FULL_ABCD, None,  None,  DATE_1),
      Notice(NAME_ABCDE, <<>>,        FULL_ABCD, <<0>>, None,  DATE_2),
      Notice(NAME_ABCDE, PARTY_a,     FULL_ABCD, None,  <<0>>, None),
      Notice(<<>>,       <<>>,        FULL_ABCD, <<0>>, <<0>>, DATE_1),
      Notice(<<>>,       PARTY_A_LTD, FULL_ABCD, <<0>>, <<0>>, DATE_2),
      Notice(NAME_abc_,  <<>>,        FULL_ABCD, <<0>>, <<0>>, DATE_2),
      Notice(NAME_XYZ,   <<>>,        FULL_ABCD, <<0>>, <<0>>, None),
      Notice(NAME_A13B7, <<>>,        FULL_ABCD, <<0>>, <<0>>, DATE_1),
      Notice(NAME_A13C7, <<>>,        FULL_ABCD, <<0>>, <<0>>, DATE_2) }

\* address.full "U A B C D" (a unit in front of "A B C D") and "u  a b c d"
\* (the same address once normalised)
FULL_U_ABCD == <<85, 32>> \o FULL_ABCD
FULL_u_abcd == <<117, 32, 32, 97, 32, 98, 32, 99, 32, 100>>
\* "a b c d", what is left of "u  a b c d" without its unit
FULL_abcd == <<97, 32, 98, 32, 99, 32, 100>>
AddressPool == {FULL_ABCD, FULL_U_ABCD, FULL_u_abcd}

\* The two points the provider knows: "A B C D" is at LOCATION_P, an address
\* with a unit in front of it at LOCATION_Q
LOCATION_P == <<1, 1>>
LOCATION_Q == <<5, 5>>

\* Where the provider locates a text, when it locates it
ProviderLocation(text) ==
    IF normalize_address(text) = normalize_address(FULL_ABCD) THEN LOCATION_P ELSE LOCATION_Q

\* The ways the provider may answer the successive attempts of one call
ProviderBehaviours == [1..MAX_RETRIES -> ProviderResponses]

GeocodingPool ==
    { Notice(NAME_ABCDE, <<>>, <<>>,        None,  None,  None),
      Notice(NAME_ABCDE, <<>>, FULL_ABCD,   None,  None,  None),
      Notice(NAME_ABCDE, <<>>, FULL_ABCD,   <<1>>, <<1>>, None),
      Notice(NAME_ABCDE, <<>>, FULL_ABCD,   <<5>>, <<5>>, None),
      Notice(NAME_ABCDE, <<>>, FULL_U_ABCD, None,  None,  None),
      Notice(NAME_ABCDE, <<>>, FULL_u_abcd, None,  None,  None),
      Notice(NAME_ABCDE, <<>>, FULL_U_ABCD, <<1>>, None,  None) }

\* Most notices in one penalty_notices.json of the geocoding pass
MaxGeocodeNotices == 3

\* generate_address_variants over the addresses of the pool, computed once
VariantsTable == [a \in AddressPool |-> generate_address_variants(a)] @@ <<>>

\* Every text the run normalises or sends to the geocoder: the addresses of the
\* pool and their variants
GeocodeTexts == {FULL_ABCD, FULL_U_ABCD, FULL_u_abcd, FULL_abcd}

\* normalize_address over those texts, computed once
NormalizedTable == [t \in GeocodeTexts |-> normalize_address(t)] @@ <<>>

address_key(text) == NormalizedTable[text]

\* What geocode_address(geocoder, text) may return, over the provider's
\* behaviours, computed once
GeocodeReturns ==
    [t \in GeocodeTexts |->
        {geocode_address(responses, ProviderLocation(t)) : responses \in ProviderBehaviours}] @@ <<>>

\* The characters of the addresses given to generate_address_variants alone:
\* "A", space and comma
VariantAlphabet == {65, 32, 44}

\* Longest such address: ",A A A A A" has two shorter variants, " A A A A A"
\* has a first variant that differs from it by white space only
MaxAddressLen == 10

AddressTexts == UNION {[1..n -> VariantAlphabet] : n \in 0..MaxAddressLen}

\* The characters of the names given to name_similarity alone: "A", "b", space
NameAlphabet == {65, 98, 32}

\* Longest such name: "AAA" in "AAAb" scores 3/4, "A" in "AAAb" scores the floor
MaxNameLen == 4

NameTexts == UNION {[1..n -> NameAlphabet] : n \in 0..MaxNameLen}

\* The party_served values compared alone: "", "A" or "b", followed by two of:
\* nothing, one of the five texts of lines 76-77, " B", " "
PartyBases == {<<>>, <<65>>, <<98>>}
PartyPieces == {<<>>, SUFFIX_PTY_LTD, SUFFIX_PTY_DOT_LTD_DOT, SUFFIX_PTY, SUFFIX_LTD,
                SUFFIX_LIMITED, <<32, 66>>, <<32>>}
PartyTexts == {base \o piece1 \o piece2 :
                  base \in PartyBases, piece1 \in PartyPieces, piece2 \in PartyPieces}

\* Most notices in one penalty_notices.json of the grouping pass
MaxNotices == 3

\* name_similarity over the names of the pool, computed once (@@ makes the
\* function explicit, so that it is not evaluated again at every use)
SimilarityTable == [p \in NamePool \X NamePool |-> name_similarity(p[1], p[2])] @@ <<>>

(***************************************************************************)
(* State                                                                   *)
(***************************************************************************)
VARIABLES
    pc,                 \* position in main()
    penalty_notices,    \* the loaded file: sequence of notices in file order
    geocoded_notices,   \* 3_group: keys of the notices that passed the filter
    skipped_count,      \* 3_group: notices dropped by the filter
    groups,             \* 3_group: the list of groups
    gi,                 \* 3_group: notices of geocoded_notices handled so far
    matched_group,      \* 3_group: index of matched_group after the last scan, 0 for None
    threshold,          \* 3_group: threshold at the break of line 202, 0 when not taken
    address_cache,      \* 2_geocode: normalised address -> <<lat, lon>>
    ci,                 \* 2_geocode: notices read by the cache-building loop
    idx,                \* 2_geocode: notices the geocoding loop has finished
    stats,              \* 2_geocode: the counters
    failed_geocodings,  \* 2_geocode: the entries of failed_geocoding.json
    variants,           \* 2_geocode: variants of the notice last sent to the geocoder
    vi,                 \* 2_geocode: position in variants of the variant last or next tried
    calls,              \* 2_geocode: the geocode_address calls made, in order
    outcomes,           \* 2_geocode: per finished notice, the counter it was counted in
    address_text,       \* generate_address_variants: the argument of the call
    returned_variants,  \* generate_address_variants: the list returned
    left_text,          \* name_similarity / party comparison: first argument
    right_text,         \* name_similarity / party comparison: second argument
    score,              \* name_similarity: the value returned, <<>> before the call
    same_party,         \* party_match of the two normalised texts, <<>> before the test
    provider_answers,   \* geocode_address: what the provider did at each attempt of the last call
    geocode_returned,   \* geocode_address: what the last call did, <<>> once its result is tested
    run,                \* 2_geocode: 1 in the first run of main(), 2 in the run after a stop
    stopped_notices,    \* 2_geocode: the records as they stood when the first run was stopped
    existing_notices,   \* 0_weekly / 1_parse: the store, penalty notice number -> entry
    parsed_notices,     \* 0_weekly / 1_parse: the downloaded or re-parsed notices, in order
    di,                 \* 0_weekly / 1_parse: notices of parsed_notices merged so far
    merge_pass,         \* 0_weekly / 1_parse: 1 in the first processing, 2 in the second
    first_pass_store,   \* 0_weekly / 1_parse: the store as the first processing left it
    scan_text,          \* generate_address_variants loop: current
    scan_pos,           \* generate_address_variants loop: i
    scan_found,         \* generate_address_variants loop: variants
    scan_restarts,      \* generate_address_variants loop: executions of lines 58-59
    data_file,          \* 2_geocode: content of penalty_notices.json, key -> notice
    notice_keys,        \* 2_geocode: the keys of penalty_notices, in order
    selection,          \* 2_geocode: the --id / --slug arguments
    prosecution_slugs   \* 2_geocode: prosecution_slug of each record of the file, <<>> for none

grouping_vars == <<geocoded_notices, skipped_count, groups, gi, matched_group, threshold>>

geocoding_vars == <<address_cache, ci, idx, stats, failed_geocodings, variants, vi, calls, outcomes>>

function_vars == <<address_text, returned_variants, left_text, right_text, score, same_party>>

retry_vars == <<provider_answers, geocode_returned>>

resume_vars == <<run, stopped_notices>>

store_vars == <<existing_notices, parsed_notices, di, merge_pass, first_pass_store>>

scan_vars == <<scan_text, scan_pos, scan_found, scan_restarts>>

selection_vars == <<data_file, notice_keys, selection, prosecution_slugs>>

other_vars == <<retry_vars, resume_vars, store_vars, scan_vars, selection_vars>>

vars == <<pc, penalty_notices, grouping_vars, geocoding_vars, function_vars, other_vars>>

GroupingIdle ==
    /\ geocoded_notices = <<>>
    /\ skipped_count = 0
    /\ groups = <<>>
    /\ gi = 0
    /\ matched_group = 0
    /\ threshold = 0

GeocodingIdle ==
    /\ address_cache = <<>>
    /\ ci = 0
    /\ idx = 0
    /\ stats = [total |-> 0, already_geocoded |-> 0, geocoded_from_cache |-> 0,
                geocoded_new |-> 0, failed |-> 0]
    /\ failed_geocodings = <<>>
    /\ variants = <<>>
    /\ vi = 0
    /\ calls = <<>>
    /\ outcomes = <<>>

FunctionsIdle ==
    /\ address_text = <<>>
    /\ returned_variants = <<>>
    /\ left_text = <<>>
    /\ right_text = <<>>
    /\ score = <<>>
    /\ same_party = <<>>

OthersIdle ==
    /\ provider_answers = <<>>
    /\ geocode_returned = <<>>
    /\ run = 0
    /\ stopped_notices = <<>>
    /\ existing_notices = <<>>
    /\ parsed_notices = <<>>
    /\ di = 0
    /\ merge_pass = 0
    /\ first_pass_store = <<>>
    /\ scan_text = <<>>
    /\ scan_pos = 0
    /\ scan_found = <<>>
    /\ scan_restarts = 0
    /\ data_file = <<>>
    /\ notice_keys = <<>>
    /\ selection = [kind |-> "all"]
    /\ prosecution_slugs = <<>>

(***************************************************************************)
(* 3_group_locations.py main()                                             *)
(***************************************************************************)

\* The negation of the skip test of line 134
is_geocoded_zero_is_missing(notice) ==
    /\ notice.lat # None /\ notice.lon # None
    /\ notice.lat[1] # 0 /\ notice.lon[1] # 0

is_geocoded(notice) == notice.lat # None /\ notice.lon # None

\* The local "threshold" of line 189 when the loop body runs for this group
scan_threshold(notice, group) ==
    threshold_for(coordinates_match(notice.lat[1], notice.lon[1], group.lat, group.lon))

\* The loop body with lines 169-202 outside the "if coords_match:" of line 168
group_matches_ungated(notice, group) ==
    \/ party_match(notice.party_served, group.party_served)
    \/ /\ AtLeast(SimilarityTable[<<notice.name, group.name>>], scan_threshold(notice, group))
       /\ ~party_mismatch(notice.party_served, group.party_served)

\* The loop body with the name test of line 200 applied to the party match too
group_matches_name_always(notice, group) ==
    /\ coordinates_match(notice.lat[1], notice.lon[1], group.lat, group.lon)
    /\ AtLeast(SimilarityTable[<<notice.name, group.name>>], scan_threshold(notice, group))
    /\ ~party_mismatch(notice.party_served, group.party_served)

\* The loop body without the party_mismatch test of line 200
group_matches_no_mismatch(notice, group) ==
    /\ coordinates_match(notice.lat[1], notice.lon[1], group.lat, group.lon)
    /\ \/ party_match(notice.party_served, group.party_served)
       \/ AtLeast(SimilarityTable[<<notice.name, group.name>>], scan_threshold(notice, group))

\* One pass of the body of "for group in groups" (lines 159-202) that ends in
\* "matched_group = group; break"
group_matches(notice, group) ==
    /\ coordinates_match(notice.lat[1], notice.lon[1], group.lat, group.lon)
    /\ \/ party_match(notice.party_served, group.party_served)
       \/ /\ AtLeast(SimilarityTable[<<notice.name, group.name>>], scan_threshold(notice, group))
          /\ ~party_mismatch(notice.party_served, group.party_served)

\* The scan of lines 156-202 without the breaks: the last group that matches
find_matching_group_last(notice, gs) ==
    IF \E k \in 1..Len(gs) : group_matches(notice, gs[k])
    THEN CHOOSE k \in 1..Len(gs) :
            /\ group_matches(notice, gs[k])
            /\ \A m \in (k + 1)..Len(gs) : ~group_matches(notice, gs[m])
    ELSE 0

\* The scan of lines 156-202: the first group, in list order, that matches
find_matching_group(notice, gs) ==
    IF \E k \in 1..Len(gs) : group_matches(notice, gs[k])
    THEN CHOOSE k \in 1..Len(gs) :
            /\ group_matches(notice, gs[k])
            /\ \A m \in 1..(k - 1) : ~group_matches(notice, gs[m])
    ELSE 0

\* Lines 207-212 without the "not matched_group.get(...)" test of line 211
add_to_group_latest_party(group, id, party_served) ==
    [group EXCEPT !.penalties = Append(@, id),
                  !.party_served = IF party_served # <<>> THEN party_served ELSE @]

\* Lines 207-212: append the penalty, fill party_served when the group has none
add_to_group(group, id, party_served) ==
    [group EXCEPT !.penalties = Append(@, id),
                  !.party_served = IF @ = <<>> /\ party_served # <<>> THEN party_served ELSE @]

\* Lines 215-228 (street, city, postal_code, full and council are carried along
\* and never read by the pass)
new_group(notice, id) ==
    [name |-> notice.name, lat |-> notice.lat[1], lon |-> notice.lon[1],
     party_served |-> notice.party_served, penalties |-> <<id>>]

\* Lines 207-229 with a missing else: the notice also founds a group of its own
place_notice_no_else(gs, k, notice, id) ==
    Append(IF k # 0 THEN [gs EXCEPT ![k] = add_to_group(gs[k], id, notice.party_served)] ELSE gs,
           new_group(notice, id))

\* Lines 207-229
place_notice(gs, k, notice, id) ==
    IF k # 0 THEN [gs EXCEPT ![k] = add_to_group(gs[k], id, notice.party_served)]
    ELSE Append(gs, new_group(notice, id))

\* list.sort(key=normalize_name(name)): stable, ascending
RECURSIVE insert_group(_, _)
insert_group(sorted, g) ==
    IF sorted = <<>> THEN <<g>>
    ELSE IF StrLess(normalize_name(g.name), normalize_name(Head(sorted).name))
         THEN <<g>> \o sorted
         ELSE <<Head(sorted)>> \o insert_group(Tail(sorted), g)

RECURSIVE sort_groups(_)
sort_groups(gs) ==
    IF gs = <<>> THEN <<>>
    ELSE insert_group(sort_groups(SubSeq(gs, 1, Len(gs) - 1)), gs[Len(gs)])

\* The same sort with a penalty placed before the penalties of its own date
RECURSIVE insert_penalty_before_equal(_, _, _)
insert_penalty_before_equal(sorted, id, notices) ==
    IF sorted = <<>> THEN <<id>>
    ELSE IF ~StrLess(notices[id].date_issued, notices[Head(sorted)].date_issued)
         THEN <<id>> \o sorted
         ELSE <<Head(sorted)>> \o insert_penalty_before_equal(Tail(sorted), id, notices)

\* list.sort(key=date_issued or "", reverse=True): stable, descending
RECURSIVE insert_penalty(_, _, _)
insert_penalty(sorted, id, notices) ==
    IF sorted = <<>> THEN <<id>>
    ELSE IF StrLess(notices[Head(sorted)].date_issued, notices[id].date_issued)
         THEN <<id>> \o sorted
         ELSE <<Head(sorted)>> \o insert_penalty(Tail(sorted), id, notices)

RECURSIVE sort_penalties(_, _)
sort_penalties(ps, notices) ==
    IF ps = <<>> THEN <<>>
    ELSE insert_penalty(sort_penalties(SubSeq(ps, 1, Len(ps) - 1), notices), ps[Len(ps)], notices)

Keys(notices) == [i \in 1..Len(notices) |-> i]

GroupInit ==
    /\ pc = "load"
    /\ penalty_notices \in UNION {[1..n -> GroupingPool] : n \in 0..MaxNotices}
    /\ GroupingIdle
    /\ GeocodingIdle
    /\ FunctionsIdle
    /\ OthersIdle

\* Lines 125-141: keep the notices with both lat and lon
FilterGeocoded ==
    /\ pc = "load"
    /\ geocoded_notices' = SelectSeq(Keys(penalty_notices), LAMBDA i : is_geocoded(penalty_notices[i]))
    /\ skipped_count' = Cardinality({i \in 1..Len(penalty_notices) : ~is_geocoded(penalty_notices[i])})
    /\ pc' = "group"
    /\ UNCHANGED <<penalty_notices, groups, gi, matched_group, threshold, geocoding_vars, function_vars, other_vars>>

\* Lines 147-229: one notice of geocoded_notices
GroupNotice ==
    /\ pc = "group"
    /\ gi < Len(geocoded_notices)
    /\ LET id == geocoded_notices[gi + 1]
           notice == penalty_notices[id]
           k == find_matching_group(notice, groups)
       IN  /\ matched_group' = k
           /\ threshold' = IF k # 0 /\ ~party_match(notice.party_served, groups[k].party_served)
                           THEN scan_threshold(notice, groups[k]) ELSE 0
           /\ groups' = place_notice(groups, k, notice, id)
    /\ gi' = gi + 1
    /\ UNCHANGED <<pc, penalty_notices, geocoded_notices, skipped_count, geocoding_vars, function_vars, other_vars>>

\* Lines 231-244: sort the groups by name, each group's penalties by date, save
SortAndSave ==
    /\ pc = "group"
    /\ gi = Len(geocoded_notices)
    /\ groups' = LET sorted == sort_groups(groups)
                 IN  [k \in 1..Len(sorted) |->
                        [sorted[k] EXCEPT !.penalties = sort_penalties(@, penalty_notices)]]
    /\ pc' = "done"
    /\ UNCHANGED <<penalty_notices, geocoded_notices, skipped_count, gi, matched_group, threshold,
                   geocoding_vars, function_vars, other_vars>>

GroupNext == FilterGeocoded \/ GroupNotice \/ SortAndSave

GroupSpec == GroupInit /\ [][GroupNext]_vars

(***************************************************************************)
(* 2_geocode.py main(), run without --id and without --slug                *)
(***************************************************************************)

both_set(notice) == notice.lat # None /\ notice.lon # None

\* dict item assignment: address_cache[key] = value
cache_put(cache, key, value) ==
    [k \in DOMAIN cache \cup {key} |-> IF k = key THEN value ELSE cache[k]]

\* A start of main() that reads no record into the cache
cache_from_notice_skipped(cache, notice) == cache

\* Lines 138-143: what one notice adds to the cache being built
cache_from_notice(cache, notice) ==
    IF both_set(notice) /\ notice.full # <<>>
    THEN cache_put(cache, address_key(notice.full), <<notice.lat[1], notice.lon[1]>>)
    ELSE cache

\* Lines 162-182 without the cache lookup of line 175
resolution_path_no_lookup(notice, cache) ==
    IF notice.full = <<>> THEN "skip"
    ELSE IF both_set(notice) THEN "already_geocoded"
    ELSE "geocode"

\* Lines 162-182: which way the loop body goes for a notice
resolution_path(notice, cache) ==
    IF notice.full = <<>> THEN "skip"
    ELSE IF both_set(notice) THEN "already_geocoded"
    ELSE IF address_key(notice.full) \in DOMAIN cache THEN "geocoded_from_cache"
    ELSE "geocode"

\* Lines 199-200 writing the pair under the address itself only
write_back_full_only(cache, vs, pair) == cache_put(cache, address_key(vs[1]), pair)

\* Lines 199-200: the pair under the normalised form of every variant
RECURSIVE write_back(_, _, _)
write_back(cache, vs, pair) ==
    IF vs = <<>> THEN cache
    ELSE write_back(cache_put(cache, address_key(Head(vs)), pair), Tail(vs), pair)

\* Lines 215-220 with only the variant tried last in variants_tried
failed_entry_last_variant(id, notice, vs) ==
    [penalty_notice_number |-> id, name |-> notice.name, address |-> notice.full,
     variants_tried |-> <<vs[Len(vs)]>>]

\* Lines 215-220: the entry of failed_geocoding.json for a notice
failed_entry(id, notice, vs) ==
    [penalty_notice_number |-> id, name |-> notice.name, address |-> notice.full,
     variants_tried |-> vs]

count(counters, key) == [counters EXCEPT ![key] = @ + 1]

\* The values of a list, and the position of the first occurrence of a value in it
Range(keys) == {keys[n] : n \in 1..Len(keys)}

position(keys, key) == CHOOSE n \in 1..Len(keys) : keys[n] = key /\ \A m \in 1..(n - 1) : keys[m] # key

\* Lines 106-111 without --id / --slug: the file is loaded, every record is kept
GeocodeInitUpTo(most) ==
    /\ pc = "cache"
    /\ penalty_notices \in UNION {[1..n -> GeocodingPool] : n \in 0..most}
    /\ GroupingIdle
    /\ GeocodingIdle
    /\ FunctionsIdle
    /\ provider_answers = <<>>
    /\ geocode_returned = <<>>
    /\ existing_notices = <<>>
    /\ parsed_notices = <<>>
    /\ di = 0
    /\ merge_pass = 0
    /\ first_pass_store = <<>>
    /\ scan_text = <<>>
    /\ scan_pos = 0
    /\ scan_found = <<>>
    /\ scan_restarts = 0
    /\ run = 1
    /\ stopped_notices = <<>>
    /\ data_file = penalty_notices
    /\ notice_keys = Keys(penalty_notices)
    /\ selection = [kind |-> "all"]
    /\ prosecution_slugs = [k \in 1..Len(penalty_notices) |-> <<>>]

GeocodeInit == GeocodeInitUpTo(MaxGeocodeNotices)

\* Lines 137-143: one notice of the cache-building loop
CacheNotice ==
    /\ pc = "cache"
    /\ ci < Len(penalty_notices)
    /\ address_cache' = cache_from_notice(address_cache, penalty_notices[ci + 1])
    /\ ci' = ci + 1
    /\ UNCHANGED <<pc, penalty_notices, grouping_vars, function_vars, other_vars, idx, stats, failed_geocodings,
                   variants, vi, calls, outcomes>>

\* Lines 145-157: the cache is built, the geocoding loop starts
StartGeocoding ==
    /\ pc = "cache"
    /\ ci = Len(penalty_notices)
    /\ pc' = "loop"
    /\ UNCHANGED <<penalty_notices, grouping_vars, function_vars, other_vars, geocoding_vars>>

\* Lines 159-163: a notice without address text
SkipNoAddress ==
    /\ pc = "loop"
    /\ idx < Len(penalty_notices)
    /\ resolution_path(penalty_notices[idx + 1], address_cache) = "skip"
    /\ idx' = idx + 1
    /\ outcomes' = Append(outcomes, "skip")
    /\ UNCHANGED <<pc, penalty_notices, grouping_vars, function_vars, other_vars, address_cache, ci, stats,
                   failed_geocodings, variants, vi, calls>>

\* Lines 165-171: a notice that has its coordinates
AlreadyGeocoded ==
    /\ pc = "loop"
    /\ idx < Len(penalty_notices)
    /\ resolution_path(penalty_notices[idx + 1], address_cache) = "already_geocoded"
    /\ stats' = count(count(stats, "total"), "already_geocoded")
    /\ idx' = idx + 1
    /\ outcomes' = Append(outcomes, "already_geocoded")
    /\ UNCHANGED <<pc, penalty_notices, grouping_vars, function_vars, other_vars, address_cache, ci,
                   failed_geocodings, variants, vi, calls>>

\* Lines 165-182: a notice whose normalised address is in the cache
GeocodedFromCache ==
    /\ pc = "loop"
    /\ idx < Len(penalty_notices)
    /\ resolution_path(penalty_notices[idx + 1], address_cache) = "geocoded_from_cache"
    /\ LET pair == address_cache[address_key(penalty_notices[idx + 1].full)]
       IN  penalty_notices' = [penalty_notices EXCEPT ![idx + 1].lat = <<pair[1]>>,
                                                      ![idx + 1].lon = <<pair[2]>>]
    /\ stats' = count(count(stats, "total"), "geocoded_from_cache")
    /\ idx' = idx + 1
    /\ outcomes' = Append(outcomes, "geocoded_from_cache")
    /\ UNCHANGED <<pc, grouping_vars, function_vars, other_vars, address_cache, ci, failed_geocodings, variants, vi, calls>>

\* Lines 165-186: a notice that goes to the geocoder; its variants are generated
StartVariants ==
    /\ pc = "loop"
    /\ idx < Len(penalty_notices)
    /\ resolution_path(penalty_notices[idx + 1], address_cache) = "geocode"
    /\ stats' = count(stats, "total")
    /\ variants' = VariantsTable[penalty_notices[idx + 1].full]
    /\ vi' = 1
    /\ pc' = "variants"
    /\ UNCHANGED <<penalty_notices, grouping_vars, function_vars, other_vars, address_cache, ci, idx,
                   failed_geocodings, calls, outcomes>>

\* Lines 187-221: one variant is sent to geocode_address; on a result the notice
\* and the cache are written, after the last variant without one the failure is
\* recorded.  The call of line 192 is in no try block: an exception leaving
\* geocode_address would end main()
TryVariant ==
    /\ pc = "variants"
    /\ \E returned \in GeocodeReturns[variants[vi]] :
          LET variant == variants[vi]
              result == returned.result
              notice == penalty_notices[idx + 1]
          IN  /\ calls' = Append(calls, [notice |-> idx + 1, text |-> variant, result |-> result])
              /\ IF returned.raised
                 THEN /\ pc' = "aborted"
                      /\ UNCHANGED <<vi, penalty_notices, address_cache, stats, outcomes, idx,
                                     failed_geocodings>>
                 ELSE IF result # None
                 THEN /\ penalty_notices' = [penalty_notices EXCEPT ![idx + 1].lat = <<result[1]>>,
                                                                    ![idx + 1].lon = <<result[2]>>]
                      /\ address_cache' = write_back(address_cache, variants, result)
                      /\ stats' = count(stats, "geocoded_new")
                      /\ outcomes' = Append(outcomes, "geocoded_new")
                      /\ idx' = idx + 1
                      /\ pc' = "loop"
                      /\ UNCHANGED <<vi, failed_geocodings>>
                 ELSE IF vi < Len(variants)
                 THEN /\ vi' = vi + 1
                      /\ UNCHANGED <<pc, penalty_notices, address_cache, stats, outcomes, idx,
                                     failed_geocodings>>
                 ELSE /\ stats' = count(stats, "failed")
                      /\ failed_geocodings' =
                            Append(failed_geocodings, failed_entry(notice_keys[idx + 1], notice, variants))
                      /\ outcomes' = Append(outcomes, "failed")
                      /\ idx' = idx + 1
                      /\ pc' = "loop"
                      /\ UNCHANGED <<vi, penalty_notices, address_cache>>
    /\ UNCHANGED <<grouping_vars, function_vars, other_vars, ci, variants>>

\* Lines 231-236: every notice was handled, the results are saved
SaveResults ==
    /\ pc = "loop"
    /\ idx = Len(penalty_notices)
    /\ pc' = "done"
    /\ data_file' = [k \in Range(notice_keys) |-> penalty_notices[position(notice_keys, k)]]
    /\ UNCHANGED <<penalty_notices, grouping_vars, function_vars, geocoding_vars>>
    /\ UNCHANGED <<retry_vars, resume_vars, store_vars, scan_vars>>
    /\ UNCHANGED <<notice_keys, selection, prosecution_slugs>>

GeocodeNext ==
    \/ CacheNotice \/ StartGeocoding \/ SkipNoAddress \/ AlreadyGeocoded
    \/ GeocodedFromCache \/ StartVariants \/ TryVariant \/ SaveResults

GeocodeSpec == GeocodeInit /\ [][GeocodeNext]_vars

\* main() is one sequential run: while a statement remains, the next one is executed
GeocodeFairSpec == GeocodeSpec /\ WF_vars(GeocodeNext)

(***************************************************************************)
(* 2_geocode.py main() with the call of geocode_address (line 192) and the *)
(* test of its result (lines 194-221) as two steps, so that what the       *)
(* provider did at each attempt of the call is part of the state           *)
(***************************************************************************)
\* Lines 187-192 and 75-96: the next variant is sent to geocode_address; the
\* provider answers the attempts as in responses
CallGeocodeAddress ==
    /\ pc = "variants"
    /\ \E responses \in ProviderBehaviours :
          LET returned == geocode_address(responses, ProviderLocation(variants[vi]))
          IN  /\ provider_answers' = SubSeq(responses, 1, returned.attempts)
              /\ geocode_returned' = returned
    /\ calls' = Append(calls, [notice |-> idx + 1, text |-> variants[vi],
                               result |-> geocode_returned'.result])
    /\ pc' = "called"
    /\ UNCHANGED <<penalty_notices, grouping_vars, function_vars, address_cache, ci, idx, stats,
                   failed_geocodings, variants, vi, outcomes>>
    /\ UNCHANGED <<resume_vars, store_vars, scan_vars, selection_vars>>

\* Lines 194-221: the result of the call is tested
ResultOfCall ==
    /\ pc = "called"
    /\ LET result == geocode_returned.result
           notice == penalty_notices[idx + 1]
       IN  IF result # None
           THEN /\ penalty_notices' = [penalty_notices EXCEPT ![idx + 1].lat = <<result[1]>>,
                                                              ![idx + 1].lon = <<result[2]>>]
                /\ address_cache' = write_back(address_cache, variants, result)
                /\ stats' = count(stats, "geocoded_new")
                /\ outcomes' = Append(outcomes, "geocoded_new")
                /\ idx' = idx + 1
                /\ pc' = "loop"
                /\ UNCHANGED <<vi, failed_geocodings>>
           ELSE IF vi < Len(variants)
           THEN /\ vi' = vi + 1
                /\ pc' = "variants"
                /\ UNCHANGED <<penalty_notices, address_cache, stats, outcomes, idx,
                               failed_geocodings>>
           ELSE /\ stats' = count(stats, "failed")
                /\ failed_geocodings' =
                      Append(failed_geocodings, failed_entry(notice_keys[idx + 1], notice, variants))
                /\ outcomes' = Append(outcomes, "failed")
                /\ idx' = idx + 1
                /\ pc' = "loop"
                /\ UNCHANGED <<vi, penalty_notices, address_cache>>
    /\ provider_answers' = <<>>
    /\ geocode_returned' = <<>>
    /\ UNCHANGED <<grouping_vars, function_vars, ci, variants, calls>>
    /\ UNCHANGED <<resume_vars, store_vars, scan_vars, selection_vars>>

RetryNext ==
    \/ CacheNotice \/ StartGeocoding \/ SkipNoAddress \/ AlreadyGeocoded
    \/ GeocodedFromCache \/ StartVariants \/ CallGeocodeAddress \/ ResultOfCall
    \/ SaveResults

RetrySpec == GeocodeInit /\ [][RetryNext]_vars

(***************************************************************************)
(* 2_geocode.py main() stopped between two records and started again on    *)
(* the records as they stood.  The code writes penalty_notices.json only   *)
(* every 50 records (lines 223-229) and at the end (lines 231-236); a      *)
(* second run finds what was written last, which is the records as they    *)
(* stood after some prefix                                                 *)
(***************************************************************************)
\* The first run is stopped at the top of the loop of line 158; main() starts
\* again (lines 132-157) with an empty cache, fresh counters and the records
StopAndRerun ==
    /\ pc = "loop"
    /\ run = 1
    /\ run' = 2
    /\ stopped_notices' = penalty_notices
    /\ pc' = "cache"
    /\ address_cache' = <<>>
    /\ ci' = 0
    /\ idx' = 0
    /\ stats' = [total |-> 0, already_geocoded |-> 0, geocoded_from_cache |-> 0,
                 geocoded_new |-> 0, failed |-> 0]
    /\ failed_geocodings' = <<>>
    /\ variants' = <<>>
    /\ vi' = 0
    /\ calls' = <<>>
    /\ outcomes' = <<>>
    /\ UNCHANGED <<penalty_notices, grouping_vars, function_vars>>
    /\ UNCHANGED <<retry_vars, store_vars, scan_vars, selection_vars>>

ResumeNext == GeocodeNext \/ StopAndRerun

ResumeSpec == GeocodeInit /\ [][ResumeNext]_vars

(***************************************************************************)
(* 0_weekly_download.py and 1_parse_scrape.py: the downloaded or re-parsed  *)
(* notices are merged into the stored ones.  An entry is [penalty_notice_   *)
(* number, name, party_served, date_issued, full, lat, lon]; the store maps *)
(* a penalty notice number to its entry.  Both scripts have the same       *)
(* compare_entries and the same three-way merge                            *)
(***************************************************************************)
MaxParsedNotices == 2

\* The penalty notice numbers of the stored and of the incoming notices
NoticeNumbers == {1, 2}

Entry(number, name, full, lat, lon) ==
    [penalty_notice_number |-> number, name |-> name, party_served |-> <<>>,
     date_issued |-> None, full |-> full, lat |-> lat, lon |-> lon]

\* What download_and_parse_notice / parse_penalty_notice return: lat and lon are None
ParsedPool ==
    {Entry(number, name, full, None, None) :
        number \in NoticeNumbers, name \in {NAME_ABCDE, NAME_XYZ}, full \in {FULL_ABCD, FULL_U_ABCD}}

\* A stored entry was parsed earlier and may have been geocoded since
StoredPool == ParsedPool \cup {[e EXCEPT !.lat = <<1>>, !.lon = <<5>>] : e \in ParsedPool}

StorePool ==
    UNION {{store \in [numbers -> StoredPool] :
                \A number \in numbers : store[number].penalty_notice_number = number} :
           numbers \in SUBSET NoticeNumbers}

\* compare_entries that also compares the coordinates
compare_entries_with_coordinates(existing, new) ==
    /\ \A field \in {"penalty_notice_number", "name", "party_served", "date_issued"} :
          existing[field] = new[field]
    /\ \A field \in {"full", "lat", "lon"} : existing[field] = new[field]

\* Lines 148-164: the fields of fields_to_compare, then those of the address
compare_entries(existing, new) ==
    /\ \A field \in {"penalty_notice_number", "name", "party_served", "date_issued"} :
          existing[field] = new[field]
    /\ \A field \in {"full"} : existing[field] = new[field]

\* Lines 285-302: the body of the loop for one notice
merge_notice(store, notice) ==
    LET notice_id == notice.penalty_notice_number
    IN  IF notice_id \in DOMAIN store
        THEN IF compare_entries(store[notice_id], notice)
             THEN store
             ELSE [store EXCEPT ![notice_id] = notice]
        ELSE [number \in DOMAIN store \cup {notice_id} |->
                 IF number = notice_id THEN notice ELSE store[number]]

StoreInit ==
    /\ pc = "merge"
    /\ penalty_notices = <<>>
    /\ GroupingIdle
    /\ GeocodingIdle
    /\ FunctionsIdle
    /\ existing_notices \in StorePool
    /\ parsed_notices \in UNION {[1..n -> ParsedPool] : n \in 0..MaxParsedNotices}
    /\ di = 0
    /\ merge_pass = 1
    /\ first_pass_store = <<>>
    /\ provider_answers = <<>>
    /\ geocode_returned = <<>>
    /\ run = 0
    /\ stopped_notices = <<>>
    /\ scan_text = <<>>
    /\ scan_pos = 0
    /\ scan_found = <<>>
    /\ scan_restarts = 0
    /\ data_file = <<>>
    /\ notice_keys = <<>>
    /\ selection = [kind |-> "all"]
    /\ prosecution_slugs = <<>>

\* Lines 279-302: the next notice is merged into the store
MergeNotice ==
    /\ pc = "merge"
    /\ di < Len(parsed_notices)
    /\ existing_notices' = merge_notice(existing_notices, parsed_notices[di + 1])
    /\ di' = di + 1
    /\ UNCHANGED <<pc, penalty_notices, grouping_vars, geocoding_vars, function_vars>>
    /\ UNCHANGED <<parsed_notices, merge_pass, first_pass_store>>
    /\ UNCHANGED <<retry_vars, resume_vars, scan_vars, selection_vars>>

\* Lines 304-318: the store is saved; the script is then run again on the same notices
ProcessAgain ==
    /\ pc = "merge"
    /\ di = Len(parsed_notices)
    /\ merge_pass = 1
    /\ merge_pass' = 2
    /\ first_pass_store' = existing_notices
    /\ di' = 0
    /\ UNCHANGED <<pc, penalty_notices, grouping_vars, geocoding_vars, function_vars>>
    /\ UNCHANGED <<existing_notices, parsed_notices>>
    /\ UNCHANGED <<retry_vars, resume_vars, scan_vars, selection_vars>>

\* Lines 304-318: the second processing ends
SaveStore ==
    /\ pc = "merge"
    /\ di = Len(parsed_notices)
    /\ merge_pass = 2
    /\ pc' = "done"
    /\ UNCHANGED <<penalty_notices, grouping_vars, geocoding_vars, function_vars, other_vars>>

StoreNext == MergeNotice \/ ProcessAgain \/ SaveStore

StoreSpec == StoreInit /\ [][StoreNext]_vars

(***************************************************************************)
(* 2_geocode.py main() with the --id and --slug arguments.  The key of a   *)
(* record of penalty_notices.json is its position in the file              *)
(***************************************************************************)
MaxSelectNotices == 2

\* "wudu" and "kebab"
SLUG_WUDU == <<119, 117, 100, 117>>
SLUG_KEBAB == <<107, 101, 98, 97, 98>>

\* prosecution_slug of a record: None for a penalty notice
RecordSlugs == {None, SLUG_WUDU}

\* The command lines: no argument, --id with a key of the file or with one
\* that is not in it, --slug with a slug of the file or with another one
Selections ==
    {[kind |-> "all"]}
        \cup {[kind |-> "id", id |-> key] : key \in 1..(MaxSelectNotices + 1)}
        \cup {[kind |-> "slug", slug |-> slug] : slug \in {SLUG_WUDU, SLUG_KEBAB}}

\* Lines 101-113: the arguments are parsed and the file is loaded
SelectInit ==
    /\ pc = "select"
    /\ data_file \in UNION {[1..n -> GeocodingPool] : n \in 0..MaxSelectNotices}
    /\ penalty_notices = data_file
    /\ notice_keys = Keys(data_file)
    /\ prosecution_slugs \in [1..Len(data_file) -> RecordSlugs]
    /\ selection \in Selections
    /\ GroupingIdle
    /\ GeocodingIdle
    /\ FunctionsIdle
    /\ provider_answers = <<>>
    /\ geocode_returned = <<>>
    /\ existing_notices = <<>>
    /\ parsed_notices = <<>>
    /\ di = 0
    /\ merge_pass = 0
    /\ first_pass_store = <<>>
    /\ scan_text = <<>>
    /\ scan_pos = 0
    /\ scan_found = <<>>
    /\ scan_restarts = 0
    /\ run = 1
    /\ stopped_notices = <<>>

\* The keys k of the file, in file order, that the arguments select
selected_keys(keys, slugs, chosen) ==
    IF chosen.kind = "id" THEN SelectSeq(keys, LAMBDA k : k = chosen.id)
    ELSE IF chosen.kind = "slug" THEN SelectSeq(keys, LAMBDA k : slugs[k] = chosen.slug)
    ELSE keys

\* Lines 116-130: penalty_notices is replaced by the selected records; main()
\* returns when there is none
ApplySelection ==
    /\ pc = "select"
    /\ LET kept == selected_keys(notice_keys, prosecution_slugs, selection)
       IN  IF selection.kind # "all" /\ kept = <<>>
           THEN /\ pc' = "exit"
                /\ UNCHANGED <<penalty_notices, notice_keys>>
           ELSE /\ pc' = "cache"
                /\ penalty_notices' = [n \in 1..Len(kept) |-> penalty_notices[kept[n]]]
                /\ notice_keys' = kept
    /\ UNCHANGED <<grouping_vars, geocoding_vars, function_vars>>
    /\ UNCHANGED <<retry_vars, resume_vars, store_vars, scan_vars>>
    /\ UNCHANGED <<data_file, selection, prosecution_slugs>>

SelectNext == ApplySelection \/ GeocodeNext

SelectSpec == SelectInit /\ [][SelectNext]_vars

(***************************************************************************)
(* 2_geocode.py generate_address_variants() called on its own              *)
(***************************************************************************)
VariantInit ==
    /\ pc = "call"
    /\ penalty_notices = <<>>
    /\ GroupingIdle
    /\ GeocodingIdle
    /\ address_text \in AddressTexts
    /\ returned_variants = <<>>
    /\ left_text = <<>>
    /\ right_text = <<>>
    /\ score = <<>>
    /\ same_party = <<>>
    /\ OthersIdle

\* Lines 33-72: the call returns
GenerateVariants ==
    /\ pc = "call"
    /\ returned_variants' = generate_address_variants(address_text)
    /\ pc' = "returned"
    /\ UNCHANGED <<penalty_notices, grouping_vars, geocoding_vars, other_vars, address_text,
                   left_text, right_text, score, same_party>>

VariantNext == GenerateVariants

VariantSpec == VariantInit /\ [][VariantNext]_vars

(***************************************************************************)
(* 2_geocode.py generate_address_variants() statement by statement: one    *)
(* step per iteration of the while loop of line 46                         *)
(***************************************************************************)
MaxScanPrefix == 2

\* Every text of up to MaxScanPrefix characters, alone (too few tokens for a
\* restart) and in front of "A B C D": a special character of the prefix then
\* has at least 4 tokens after it, so ",,A B C D" restarts the scan twice
ScanPrefixes == UNION {[1..n -> VariantAlphabet] : n \in 0..MaxScanPrefix}

ScanTexts == ScanPrefixes \cup {prefix \o FULL_ABCD : prefix \in ScanPrefixes}

\* Line 50 without the removal of the special character
remaining_with_char(current, i) == Strip(SubSeq(current, i + 1, Len(current)))

\* Line 50: remaining = current[i + 1:].strip()
remaining_after(current, i) == Strip(SubSeq(current, i + 2, Len(current)))

\* Lines 39-44: the state at the first test of the while condition
ScanInit ==
    /\ pc = "scan"
    /\ penalty_notices = <<>>
    /\ GroupingIdle
    /\ GeocodingIdle
    /\ address_text \in ScanTexts
    /\ returned_variants = <<>>
    /\ left_text = <<>>
    /\ right_text = <<>>
    /\ score = <<>>
    /\ same_party = <<>>
    /\ scan_text = address_text
    /\ scan_pos = 0
    /\ scan_found = <<address_text>>
    /\ scan_restarts = 0
    /\ provider_answers = <<>>
    /\ geocode_returned = <<>>
    /\ run = 0
    /\ stopped_notices = <<>>
    /\ existing_notices = <<>>
    /\ parsed_notices = <<>>
    /\ di = 0
    /\ merge_pass = 0
    /\ first_pass_store = <<>>
    /\ data_file = <<>>
    /\ notice_keys = <<>>
    /\ selection = [kind |-> "all"]
    /\ prosecution_slugs = <<>>

\* Lines 46-49 and 62-63: the character at i is not special
SkipChar ==
    /\ pc = "scan"
    /\ scan_pos < Len(scan_text)
    /\ scan_text[scan_pos + 1] \notin special_chars
    /\ scan_pos' = scan_pos + 1
    /\ UNCHANGED <<pc, scan_text, scan_found, scan_restarts>>
    /\ UNCHANGED <<penalty_notices, grouping_vars, geocoding_vars, function_vars>>
    /\ UNCHANGED <<retry_vars, resume_vars, store_vars, selection_vars>>

\* Lines 46-59: a special character with at least 4 tokens after it; the scan
\* restarts on what follows it
RestartScan ==
    /\ pc = "scan"
    /\ scan_pos < Len(scan_text)
    /\ scan_text[scan_pos + 1] \in special_chars
    /\ LET remaining == remaining_after(scan_text, scan_pos)
       IN  /\ token_count(remaining) >= 4
           /\ scan_found' = IF remaining # <<>> /\ remaining # address_text
                             THEN Append(scan_found, remaining) ELSE scan_found
           /\ scan_text' = remaining
    /\ scan_pos' = 0
    /\ scan_restarts' = scan_restarts + 1
    /\ UNCHANGED <<pc, penalty_notices, grouping_vars, geocoding_vars, function_vars>>
    /\ UNCHANGED <<retry_vars, resume_vars, store_vars, selection_vars>>

\* Lines 46-55 and 60-61: a special character with fewer than 4 tokens after it
BreakScan ==
    /\ pc = "scan"
    /\ scan_pos < Len(scan_text)
    /\ scan_text[scan_pos + 1] \in special_chars
    /\ token_count(remaining_after(scan_text, scan_pos)) < 4
    /\ pc' = "unique"
    /\ UNCHANGED <<penalty_notices, grouping_vars, geocoding_vars, function_vars, other_vars>>

\* Line 46: the while condition is false
EndOfScan ==
    /\ pc = "scan"
    /\ scan_pos >= Len(scan_text)
    /\ pc' = "unique"
    /\ UNCHANGED <<penalty_notices, grouping_vars, geocoding_vars, function_vars, other_vars>>

\* Lines 64-72: the duplicates are removed and the list is returned
ReturnUnique ==
    /\ pc = "unique"
    /\ returned_variants' = unique_variants(scan_found, {})
    /\ pc' = "returned"
    /\ UNCHANGED <<penalty_notices, grouping_vars, geocoding_vars, other_vars>>
    /\ UNCHANGED <<address_text, left_text, right_text, score, same_party>>

ScanNext == SkipChar \/ RestartScan \/ BreakScan \/ EndOfScan \/ ReturnUnique

ScanSpec == ScanInit /\ [][ScanNext]_vars

\* A call runs to its end: while a statement remains, the next one is executed
ScanFairSpec == ScanSpec /\ WF_vars(ScanNext)

(***************************************************************************)
(* 3_group_locations.py name_similarity() and the party test of lines      *)
(* 171-176 called on their own                                             *)
(***************************************************************************)
ScorerInit ==
    /\ penalty_notices = <<>>
    /\ GroupingIdle
    /\ GeocodingIdle
    /\ address_text = <<>>
    /\ returned_variants = <<>>
    /\ \/ pc = "names" /\ left_text \in NameTexts /\ right_text \in NameTexts
       \/ pc = "parties" /\ left_text \in PartyTexts /\ right_text \in PartyTexts
    /\ score = <<>>
    /\ same_party = <<>>
    /\ OthersIdle

\* Lines 82-99: name_similarity(name1, name2) returns
ScoreNames ==
    /\ pc = "names"
    /\ score' = name_similarity(left_text, right_text)
    /\ pc' = "scored"
    /\ UNCHANGED <<penalty_notices, grouping_vars, geocoding_vars, other_vars, address_text,
                   returned_variants, left_text, right_text, same_party>>

\* Lines 171-176: party_match is computed from the two party_served values
CompareParties ==
    /\ pc = "parties"
    /\ same_party' = <<party_match(left_text, right_text)>>
    /\ pc' = "compared"
    /\ UNCHANGED <<penalty_notices, grouping_vars, geocoding_vars, other_vars, address_text,
                   returned_variants, left_text, right_text, score>>

ScorerNext == ScoreNames \/ CompareParties

ScorerSpec == ScorerInit /\ [][ScorerNext]_vars

(***************************************************************************)
(* Properties of the grouping pass                                         *)
(***************************************************************************)

RECURSIVE MemberCount(_)
MemberCount(gs) == IF gs = <<>> THEN 0 ELSE Len(Head(gs).penalties) + MemberCount(Tail(gs))

\* The places <<group, position>> at which notice id is a member
Memberships(id) ==
    {m \in (1..Len(groups)) \X (1..Len(penalty_notices)) :
        m[2] <= Len(groups[m[1]].penalties) /\ groups[m[1]].penalties[m[2]] = id}

HasCoordinates(notice) == notice.lat # None /\ notice.lon # None

GroupingOver == pc = "done" \/ (pc = "group" /\ gi = Len(geocoded_notices))

\* The notice the next GroupNotice step handles
Current == penalty_notices[geocoded_notices[gi + 1]]

Scanning == pc = "group" /\ gi < Len(geocoded_notices)

CoordsMatchGroup(notice, group) ==
    /\ Abs(notice.lat[1] - group.lat) < COORDINATE_EPSILON
    /\ Abs(notice.lon[1] - group.lon) < COORDINATE_EPSILON

\* partyIdentity of the two values: equal and non-empty once normalised
partyIdentity(a, b) ==
    /\ normalize_party_served(a) # <<>>
    /\ normalize_party_served(a) = normalize_party_served(b)

\* The step appends the current notice to a group that existed before it
AppendedToExisting ==
    /\ Len(groups') = Len(groups)
    /\ \E k \in 1..Len(groups) :
          /\ groups'[k].penalties = Append(groups[k].penalties, geocoded_notices[gi + 1])
          /\ \A m \in (1..Len(groups)) \ {k} : groups'[m] = groups[m]

\* C1: once every notice has been grouped, and in the saved output, the member
\* counts of the groups add up to the number of input notices that have both
\* lat and lon.
C1_MemberCountIsGeocodedCount ==
    GroupingOver =>
        MemberCount(groups) =
            Cardinality({i \in 1..Len(penalty_notices) : HasCoordinates(penalty_notices[i])})

\* A finished run in which one notice was dropped and two share a group
C1_Witness ==
    /\ pc = "done"
    /\ \E i \in 1..Len(penalty_notices) : ~HasCoordinates(penalty_notices[i])
    /\ \E k \in 1..Len(groups) : Len(groups[k].penalties) = 2

\* C2: after grouping, a notice with both lat and lon is a member of exactly one
\* group, at one position; a notice with lat or lon unset is a member of none.
C2_ExactlyOneGroup ==
    GroupingOver =>
        \A i \in 1..Len(penalty_notices) :
            Cardinality(Memberships(i)) = IF HasCoordinates(penalty_notices[i]) THEN 1 ELSE 0

\* A finished run of three notices: one has lat but no lon and is in no group,
\* the other two share one group
C2_Witness ==
    /\ pc = "done"
    /\ Len(penalty_notices) = 3
    /\ \E i \in 1..Len(penalty_notices) :
          /\ penalty_notices[i].lat # None /\ penalty_notices[i].lon = None
          /\ Memberships(i) = {}
    /\ Len(groups) = 1
    /\ Len(groups[1].penalties) = 2

\* C3: rule a.  When some existing group has coordinates matching the notice's,
\* both party_served values are non-empty and partyIdentity holds, the step
\* appends the notice to an existing group and founds none, whatever the names.
C3_PartyIdentityMerges ==
    [][ (/\ Scanning
         /\ \E k \in 1..Len(groups) :
               /\ CoordsMatchGroup(Current, groups[k])
               /\ Current.party_served # <<>>
               /\ groups[k].party_served # <<>>
               /\ partyIdentity(Current.party_served, groups[k].party_served))
        => AppendedToExisting ]_vars

\* Two notices of the same party at the same coordinates whose names have
\* similarity 0 ended in one group
C3_Witness ==
    /\ pc = "group"
    /\ matched_group # 0
    /\ \E i, j \in 1..Len(penalty_notices) :
          /\ i # j
          /\ Memberships(i) # {} /\ Memberships(j) # {}
          /\ \E mi \in Memberships(i), mj \in Memberships(j) : mi[1] = mj[1]
          /\ partyIdentity(penalty_notices[i].party_served, penalty_notices[j].party_served)
          /\ penalty_notices[i].name # <<>> /\ penalty_notices[j].name # <<>>
          /\ SimilarityTable[<<penalty_notices[i].name, penalty_notices[j].name>>][1] = 0

\* The two party_served values are both non-empty and partyIdentity is false
ExplicitPartyMismatch(a, b) == a # <<>> /\ b # <<>> /\ ~partyIdentity(a, b)

\* C4: rule b.  When some existing group has coordinates matching the notice's,
\* a name whose similarity with the notice's name is at least 0.60, and no
\* explicit party mismatch with the notice, the step appends the notice to an
\* existing group and founds none.
C4_SimilarNameMerges ==
    [][ (/\ Scanning
         /\ \E k \in 1..Len(groups) :
               /\ CoordsMatchGroup(Current, groups[k])
               /\ 100 * SimilarityTable[<<Current.name, groups[k].name>>][1]
                     >= 60 * SimilarityTable[<<Current.name, groups[k].name>>][2]
               /\ ~ExplicitPartyMismatch(Current.party_served, groups[k].party_served))
        => AppendedToExisting ]_vars

\* A notice was appended, on its name alone, to a group whose name has
\* similarity exactly 0.60 with its own, neither naming a party
C4_Witness ==
    /\ pc = "group"
    /\ matched_group # 0
    /\ threshold = NAME_SIMILARITY_THRESHOLD_EXACT_COORDS
    /\ LET notice == penalty_notices[geocoded_notices[gi]]
           group == groups[matched_group]
       IN  /\ SimilarityTable[<<notice.name, group.name>>] = <<6, 10>>
           /\ notice.party_served = <<>>
           /\ group.party_served = <<>>

CallsOf(j) == SelectSeq(calls, LAMBDA c : c.notice = j)

Outcomes == {outcomes[i] : i \in 1..Len(outcomes)}

\* The notice went through lines 173-221: it had address text and not both
\* coordinates when the loop reached it
WasUngeocoded(i) == outcomes[i] \in {"geocoded_new", "geocoded_from_cache", "failed"}

WasResolved(i) == outcomes[i] \in {"geocoded_new", "geocoded_from_cache"}

\* C7: no step of the run removes a key of address_cache or replaces the pair
\* stored under it with a different pair.
C7_CacheEntriesNeverReplaced ==
    [][ \A key \in DOMAIN address_cache :
            /\ key \in DOMAIN address_cache'
            /\ address_cache'[key] = address_cache[key] ]_vars

\* C8: of two notices that reached the loop without coordinates and with the
\* same normalised address.full, the earlier one resolved, the later one has
\* the earlier one's coordinates and no geocode_address call was made for it.
C8_SameAddressSameCoordinates ==
    \A i, j \in 1..Len(outcomes) :
        (/\ i < j
         /\ WasResolved(i)
         /\ WasUngeocoded(j)
         /\ normalize_address(penalty_notices[i].full) = normalize_address(penalty_notices[j].full))
        => /\ penalty_notices[j].lat = penalty_notices[i].lat
           /\ penalty_notices[j].lon = penalty_notices[i].lon
           /\ CallsOf(j) = <<>>

\* C9: a step that calls geocode_address makes one call, for the notice the loop
\* is at, and that notice has address text, does not have both lat and lon, and
\* its normalised address.full is not a key of address_cache; no call is ever
\* logged for a notice counted as skipped, already geocoded or from the cache.
C9_CallsOnlyForUncachedUngeocoded ==
    [][ /\ calls' # calls =>
              LET notice == penalty_notices[idx + 1]
              IN  /\ Len(calls') = Len(calls) + 1
                  /\ SubSeq(calls', 1, Len(calls)) = calls
                  /\ calls'[Len(calls')].notice = idx + 1
                  /\ notice.full # <<>>
                  /\ ~(notice.lat # None /\ notice.lon # None)
                  /\ normalize_address(notice.full) \notin DOMAIN address_cache
        /\ \A i \in 1..Len(outcomes') :
              outcomes'[i] \in {"skip", "already_geocoded", "geocoded_from_cache"}
                 => \A c \in 1..Len(calls') : calls'[c].notice # i ]_vars

\* A finished run with a call for one notice, and none for a notice that had its
\* coordinates and for a notice found in the cache
C9_Witness ==
    /\ pc = "done"
    /\ Len(calls) = 1
    /\ "geocoded_from_cache" \in Outcomes
    /\ "already_geocoded" \in Outcomes

\* C10: the calls for a notice are its variants in generated order, each before
\* the last without a result; when a variant returns a result the notice is
\* finished with that result as its lat and lon, no later variant is called, and
\* address_cache holds the result under the normalised form of every variant.
C10_FirstResultStopsAndFillsCache ==
    /\ pc = "variants" =>
          /\ variants = generate_address_variants(penalty_notices[idx + 1].full)
          /\ Len(CallsOf(idx + 1)) = vi - 1
          /\ \A m \in 1..(vi - 1) :
                CallsOf(idx + 1)[m].text = variants[m] /\ CallsOf(idx + 1)[m].result = None
    /\ (pc \in {"loop", "done"} /\ idx > 0 /\ outcomes[idx] = "geocoded_new") =>
          LET made == CallsOf(idx)
              notice == penalty_notices[idx]
              result == made[vi].result
          IN  /\ variants = generate_address_variants(notice.full)
              /\ Len(made) = vi
              /\ \A m \in 1..vi :
                    made[m].text = variants[m] /\ (made[m].result # None <=> m = vi)
              /\ notice.lat = <<result[1]>> /\ notice.lon = <<result[2]>>
              /\ \A m \in 1..Len(variants) :
                    /\ normalize_address(variants[m]) \in DOMAIN address_cache
                    /\ address_cache[normalize_address(variants[m])] = result

\* A notice with two variants was located on the first; the second, never sent,
\* is a key of the cache
C10_Witness ==
    /\ pc = "loop"
    /\ idx > 0
    /\ outcomes[idx] = "geocoded_new"
    /\ Len(variants) = 2
    /\ vi = 1
    /\ Len(CallsOf(idx)) = 1
    /\ address_cache[normalize_address(variants[2])]
          = <<penalty_notices[idx].lat[1], penalty_notices[idx].lon[1]>>

\* C11: the step that finishes a notice as failed has sent each of its variants
\* once, in order, each without a result; it leaves the notice's lat and lon as
\* they were (not both set) and address_cache as it was, and adds exactly one
\* entry with the notice's name, address text and all its variants to
\* failed_geocodings.  No earlier step for that notice touches the cache either.
C11_FailureLeavesRecordAndCache ==
    [][ /\ (pc = "variants" /\ pc' = "loop" /\ outcomes'[idx + 1] = "failed") =>
              LET notice == penalty_notices[idx + 1]
                  made == SelectSeq(calls', LAMBDA c : c.notice = idx + 1)
                  generated == generate_address_variants(notice.full)
              IN  /\ Len(made) = Len(generated)
                  /\ \A m \in 1..Len(generated) :
                        made[m].text = generated[m] /\ made[m].result = None
                  /\ penalty_notices' = penalty_notices
                  /\ ~(notice.lat # None /\ notice.lon # None)
                  /\ address_cache' = address_cache
                  /\ failed_geocodings' =
                        Append(failed_geocodings,
                               [penalty_notice_number |-> idx + 1, name |-> notice.name,
                                address |-> notice.full, variants_tried |-> generated])
        /\ pc' = "variants" =>
              address_cache' = address_cache /\ penalty_notices' = penalty_notices ]_vars

\* A notice with two variants failed on both while the cache held an entry for
\* its second variant's neighbour, and one entry was logged
C11_Witness ==
    /\ pc = "loop"
    /\ idx > 0
    /\ outcomes[idx] = "failed"
    /\ Len(variants) = 2
    /\ Len(CallsOf(idx)) = 2
    /\ address_cache # <<>>
    /\ Len(failed_geocodings) = 1
    /\ failed_geocodings[1].variants_tried = variants
    /\ penalty_notices[idx].lat = None /\ penalty_notices[idx].lon = None

\* C12: whatever the provider answers, the run reaches the end of the loop and
\* the final save, and then every notice has been handled, the notices counted
\* as skipped are those without address text, and total is the number of
\* notices with address text and the sum of the four outcome counters.
C12_BatchAlwaysCompletes ==
    <>( /\ pc = "done"
        /\ idx = Len(penalty_notices)
        /\ Len(outcomes) = Len(penalty_notices)
        /\ \A i \in 1..Len(penalty_notices) :
              (outcomes[i] = "skip") <=> (penalty_notices[i].full = <<>>)
        /\ stats.total = Cardinality({i \in 1..Len(penalty_notices) :
                                          penalty_notices[i].full # <<>>})
        /\ \A key \in {"already_geocoded", "geocoded_from_cache", "geocoded_new", "failed"} :
              stats[key] = Cardinality({i \in 1..Len(outcomes) : outcomes[i] = key})
        /\ stats.total = stats.already_geocoded + stats.geocoded_from_cache
                            + stats.geocoded_new + stats.failed )

\* A finished run whose first notice failed and whose later notices were still
\* handled, one of them by a new call
C12_Witness ==
    /\ pc = "done"
    /\ Len(outcomes) = 3
    /\ outcomes[1] = "failed"
    /\ outcomes[3] = "geocoded_new"
    /\ stats.total = 3

(***************************************************************************)
(* Properties of generate_address_variants                                 *)
(***************************************************************************)

Returned == pc = "returned"

\* C13: generate_address_variants returns a non-empty list whose first element
\* is the input itself, untrimmed, whatever the input starts with
C13_FirstVariantIsInput ==
    Returned =>
        /\ returned_variants # <<>>
        /\ returned_variants[1] = address_text

\* An input that starts with white space, and one that starts with a comma, each
\* returned first in a list of two variants or more
C13_Witness ==
    /\ Returned
    /\ address_text # <<>>
    /\ address_text[1] \in Whitespace
    /\ Len(returned_variants) >= 2
    /\ returned_variants[1] = address_text

IsProperSuffix(s, t) ==
    /\ Len(s) < Len(t)
    /\ SubSeq(t, Len(t) - Len(s) + 1, Len(t)) = s

\* C14 as stated: every variant after the first is a proper suffix of the input
\* and has at least 4 tokens
C14_LaterVariantsAreSuffixesOfInput ==
    Returned =>
        \A k \in 2..Len(returned_variants) :
            /\ IsProperSuffix(returned_variants[k], address_text)
            /\ token_count(returned_variants[k]) >= 4

\* C14: every variant after the first is a proper suffix of the input without
\* its trailing white space, and has at least 4 tokens
C14_LaterVariantsAreSuffixesOfTrimmedInput ==
    Returned =>
        \A k \in 2..Len(returned_variants) :
            /\ IsProperSuffix(returned_variants[k], RStrip(address_text))
            /\ token_count(returned_variants[k]) >= 4

\* An input of 5 tokens that ends with white space: one shorter variant of 4
\* tokens is returned and the text after its first delimiter, of 3 tokens, is not
C14_Witness ==
    /\ Returned
    /\ address_text # <<>>
    /\ address_text[Len(address_text)] \in Whitespace
    /\ token_count(address_text) = 5
    /\ Len(returned_variants) = 2
    /\ token_count(returned_variants[2]) = 4
    /\ ~IsProperSuffix(returned_variants[2], address_text)

\* The positions of collected whose normalised form did not occur before them
C15_FirstSeen(collected) ==
    {i \in 1..Len(collected) :
        \A j \in 1..(i - 1) : normalize_address(collected[j]) # normalize_address(collected[i])}

\* C15: no two returned variants have the same normalised form, and the
\* returned variants are the first occurrences, in the order of production
C15_DistinctInProductionOrder ==
    Returned =>
        LET produced == collected_variants(address_text)
            kept == C15_FirstSeen(produced)
        IN  /\ \A k, l \in 1..Len(returned_variants) :
                   k # l => normalize_address(returned_variants[k])
                                # normalize_address(returned_variants[l])
            /\ Len(returned_variants) = Cardinality(kept)
            /\ \A k \in 1..Len(returned_variants) :
                   \E i \in kept :
                       /\ Cardinality({j \in kept : j < i}) = k - 1
                       /\ returned_variants[k] = produced[i]

\* Three variants were produced, the second a duplicate of the first once
\* normalised: the first and the third are returned
C15_Witness ==
    /\ Returned
    /\ Len(collected_variants(address_text)) = 3
    /\ Len(returned_variants) = 2
    /\ returned_variants[2] = collected_variants(address_text)[3]

(***************************************************************************)
(* Properties of name_similarity and of the party test                     *)
(***************************************************************************)

Scored == pc = "scored"

TrimUpper(text) == Upper(Strip(text))

\* C16: name_similarity is 0 when a name is empty after trim and uppercase;
\* when one normalised name contains the other it is max(0.70, shorter/longer),
\* so at least 0.70, and 1 for equal names; it always lies in [0, 1]
C16_SimilarityContract ==
    Scored =>
        LET a == TrimUpper(left_text)
            b == TrimUpper(right_text)
            longer == Max(Len(a), Len(b))
            shorter == Min(Len(a), Len(b))
        IN  /\ score[2] > 0
            /\ 0 <= score[1] /\ score[1] <= score[2]
            /\ (a = <<>> \/ b = <<>>) => score[1] = 0
            /\ (a # <<>> /\ b # <<>> /\ (Contains(a, b) \/ Contains(b, a))) =>
                   /\ score[1] * 10 * longer = score[2] * Max(7 * longer, 10 * shorter)
                   /\ 10 * score[1] >= 7 * score[2]
                   /\ a = b => score[1] = score[2]

\* A name of one letter contained in a name of four: the score is the floor 0.70
C16_Witness ==
    /\ Scored
    /\ Len(TrimUpper(left_text)) = 1
    /\ Len(TrimUpper(right_text)) = 4
    /\ Contains(TrimUpper(right_text), TrimUpper(left_text))
    /\ left_text # TrimUpper(left_text)
    /\ score = <<7, 10>>

Compared == pc = "compared"

EndsWith(s, p) == Len(p) <= Len(s) /\ SubSeq(s, Len(s) - Len(p) + 1, Len(s)) = p

\* Trim, uppercase, then the first of the five texts that ends the value is
\* removed from its end, once; the result is trimmed
C17_StripOneSuffix(party) ==
    LET n0 == TrimUpper(party)
        suffixes == <<SUFFIX_PTY_LTD, SUFFIX_PTY_DOT_LTD_DOT, SUFFIX_PTY, SUFFIX_LTD,
                      SUFFIX_LIMITED>>
        found == {k \in 1..Len(suffixes) : EndsWith(n0, suffixes[k])}
    IN  IF found = {} THEN n0
        ELSE LET first == CHOOSE k \in found : \A l \in found : k <= l
             IN  Strip(SubSeq(n0, 1, Len(n0) - Len(suffixes[first])))

\* C17: the party test is true exactly when the two values, after trim,
\* uppercase and removal of one trailing suffix, are equal and non-empty
C17_PartyIdentityStripsOneTrailingSuffix ==
    Compared =>
        (same_party[1] <=>
            /\ C17_StripOneSuffix(left_text) # <<>>
            /\ C17_StripOneSuffix(left_text) = C17_StripOneSuffix(right_text))

(***************************************************************************)
(* Further properties of the grouping pass                                 *)
(***************************************************************************)

\* The input is three notices, all with the same lat and lon, every two of
\* them with name similarity at least 0.60 in both argument orders and without
\* explicit party mismatch
ThreeMutuallySimilar ==
    /\ Len(penalty_notices) = 3
    /\ \A i \in 1..3 : HasCoordinates(penalty_notices[i])
    /\ \A i, j \in 1..3 :
          i # j =>
            /\ penalty_notices[i].lat = penalty_notices[j].lat
            /\ penalty_notices[i].lon = penalty_notices[j].lon
            /\ 100 * SimilarityTable[<<penalty_notices[i].name, penalty_notices[j].name>>][1]
                  >= 60 * SimilarityTable[<<penalty_notices[i].name, penalty_notices[j].name>>][2]
            /\ ~ExplicitPartyMismatch(penalty_notices[i].party_served,
                                      penalty_notices[j].party_served)

\* C18: three notices at the same coordinates, pairwise similar by name and
\* without party mismatch, end in one group of three, in whatever order they
\* are given
C18_ThreeSimilarRecordsOneGroup ==
    (GroupingOver /\ ThreeMutuallySimilar) =>
        /\ Len(groups) = 1
        /\ {groups[1].penalties[p] : p \in 1..Len(groups[1].penalties)} = {1, 2, 3}
        /\ Len(groups[1].penalties) = 3

\* Three notices with three different names, the second and third with
\* similarity exactly 0.60 with the first, saved as one group of three
C18_Witness ==
    /\ pc = "done"
    /\ ThreeMutuallySimilar
    /\ penalty_notices[1].name = NAME_ABCXY
    /\ penalty_notices[2].name = NAME_ABCDE
    /\ penalty_notices[3].name = NAME_abc_
    /\ Len(groups) = 1
    /\ Len(groups[1].penalties) = 3

EmptyName(notice) == normalize_name(notice.name) = <<>>

\* The members of the group that notice id is in
GroupOf(id) ==
    LET k == CHOOSE k \in 1..Len(groups) :
                 \E p \in 1..Len(groups[k].penalties) : groups[k].penalties[p] = id
    IN  groups[k].penalties

\* C19 as stated: every geocoded notice whose name normalises to the empty
\* string ends as the only member of its group
C19_EmptyNameIsSingleton ==
    GroupingOver =>
        \A id \in 1..Len(penalty_notices) :
            (HasCoordinates(penalty_notices[id]) /\ EmptyName(penalty_notices[id]))
                => GroupOf(id) = <<id>>

\* C19: a notice is appended to a group, when its name or the group's name
\* normalises to the empty string, only on party identity; and a geocoded
\* notice with an empty name and no party once normalised ends as the only
\* member of its group
C19_EmptyNameMergesOnlyOnParty ==
    [][ /\ (/\ Scanning
            /\ AppendedToExisting
            /\ (EmptyName(Current) \/ normalize_name(groups[matched_group'].name) = <<>>))
           => party_match(Current.party_served, groups[matched_group'].party_served)
        /\ (pc' = "group" /\ gi' = Len(geocoded_notices')) =>
              \A p \in 1..Len(geocoded_notices') :
                 LET id == geocoded_notices'[p]
                     members == {k \in 1..Len(groups') :
                                    \E q \in 1..Len(groups'[k].penalties) :
                                        groups'[k].penalties[q] = id}
                 IN  (/\ EmptyName(penalty_notices'[id])
                      /\ normalize_party_served(penalty_notices'[id].party_served) = <<>>)
                         => \A k \in members : groups'[k].penalties = <<id>> ]_vars

\* A notice with an empty name was just appended, on party identity, to a
\* group founded by a notice with a name
C19_Witness ==
    /\ pc = "group"
    /\ gi > 0
    /\ matched_group # 0
    /\ EmptyName(penalty_notices[geocoded_notices[gi]])
    /\ ~EmptyName(penalty_notices[groups[matched_group].penalties[1]])
    /\ Len(groups[matched_group].penalties) >= 2
    /\ party_match(penalty_notices[geocoded_notices[gi]].party_served,
                   groups[matched_group].party_served)

DateOf(id) == penalty_notices[id].date_issued

\* C20: in the saved output the members of each group are in descending
\* order of date_issued, a missing date counting as "", so the members without
\* a date come last, and members of equal date are in insertion order
C20_MembersByDateDescending ==
    pc = "done" =>
        \A k \in 1..Len(groups) :
            \A p, q \in 1..Len(groups[k].penalties) :
                p < q =>
                    LET first == groups[k].penalties[p]
                        second == groups[k].penalties[q]
                    IN  /\ ~StrLess(DateOf(first), DateOf(second))
                        /\ DateOf(first) = None => DateOf(second) = None
                        /\ DateOf(first) = DateOf(second) => first < second

\* A saved group of three: the notice without a date was given first and is
\* last, the two notices of equal date are before it in the order given
C20_Witness ==
    /\ pc = "done"
    /\ \E k \in 1..Len(groups) :
          /\ groups[k].penalties = <<2, 3, 1>>
          /\ DateOf(1) = None
          /\ DateOf(2) = DateOf(3)
          /\ DateOf(2) # None

\* C21: two notices whose coordinates do not match and whose names are more
\* than 85% similar end in the same group (neither names a party)
C21_DistantSimilarNamesMerge ==
    (/\ GroupingOver
     /\ Len(penalty_notices) = 2
     /\ \A i \in 1..2 : HasCoordinates(penalty_notices[i]) /\ penalty_notices[i].party_served = <<>>
     /\ ~coordinates_match(penalty_notices[1].lat[1], penalty_notices[1].lon[1],
                           penalty_notices[2].lat[1], penalty_notices[2].lon[1])
     /\ 100 * SimilarityTable[<<penalty_notices[2].name, penalty_notices[1].name>>][1]
           > NAME_SIMILARITY_THRESHOLD
               * SimilarityTable[<<penalty_notices[2].name, penalty_notices[1].name>>][2])
        => Len(groups) = 1

\* Rule a: matching coordinates, both parties named, party identity
RuleA(notice, group) ==
    /\ CoordsMatchGroup(notice, group)
    /\ notice.party_served # <<>>
    /\ group.party_served # <<>>
    /\ partyIdentity(notice.party_served, group.party_served)

\* Rule b: matching coordinates, name similarity at least 0.60 and no two
\* named parties that differ once normalised
RuleB(notice, group) ==
    /\ CoordsMatchGroup(notice, group)
    /\ 100 * SimilarityTable[<<notice.name, group.name>>][1]
          >= 60 * SimilarityTable[<<notice.name, group.name>>][2]
    /\ ~(/\ normalize_party_served(notice.party_served) # <<>>
         /\ normalize_party_served(group.party_served) # <<>>
         /\ normalize_party_served(notice.party_served)
               # normalize_party_served(group.party_served))

\* The groups, by position in creation order, that match the notice
MatchingGroups(notice, gs) == {k \in 1..Len(gs) : RuleA(notice, gs[k]) \/ RuleB(notice, gs[k])}

RECURSIVE FirstParty(_)
FirstParty(ps) ==
    IF ps = <<>> THEN <<>>
    ELSE IF penalty_notices[Head(ps)].party_served # <<>>
         THEN penalty_notices[Head(ps)].party_served
         ELSE FirstParty(Tail(ps))

\* C23: while notices are grouped, a group's party_served is that of its
\* first member, in insertion order, that has a non-empty one (empty when
\* none has), and a non-empty party_served of a group is not changed by a step
C23_GroupPartyIsFirstSupplied ==
    [][ pc' = "group" =>
          /\ \A k \in 1..Len(groups') :
                groups'[k].party_served = FirstParty(groups'[k].penalties)
          /\ \A k \in 1..Len(groups) :
                groups[k].party_served # <<>> =>
                    groups'[k].party_served = groups[k].party_served ]_vars

\* A group of three: the founder names no party, the second member does and
\* the group has its value, the third names the same party in other words
C23_Witness ==
    /\ pc = "group"
    /\ \E k \in 1..Len(groups) :
          LET ps == groups[k].penalties
          IN  /\ Len(ps) = 3
              /\ penalty_notices[ps[1]].party_served = <<>>
              /\ penalty_notices[ps[2]].party_served # <<>>
              /\ penalty_notices[ps[3]].party_served # <<>>
              /\ penalty_notices[ps[3]].party_served # penalty_notices[ps[2]].party_served
              /\ groups[k].party_served = penalty_notices[ps[2]].party_served

\* C28: once every notice has been grouped, no group has two members whose
\* party_served are both non-empty and not identical once normalised
C28_OnePartyPerGroup ==
    GroupingOver =>
        \A k \in 1..Len(groups) :
            \A p, q \in 1..Len(groups[k].penalties) :
                p # q =>
                ~ExplicitPartyMismatch(penalty_notices[groups[k].penalties[p]].party_served,
                                       penalty_notices[groups[k].penalties[q]].party_served)

\* C29: once every notice has been grouped, no two groups have matching
\* coordinates and party_served both non-empty and identical once normalised
C29_PartyAtCoordinatesInOneGroup ==
    GroupingOver =>
        \A k, m \in 1..Len(groups) :
            k # m =>
                ~(/\ coordinates_match(groups[k].lat, groups[k].lon, groups[m].lat, groups[m].lon)
                  /\ groups[k].party_served # <<>>
                  /\ groups[m].party_served # <<>>
                  /\ partyIdentity(groups[k].party_served, groups[m].party_served))

(***************************************************************************)
(* Properties of geocode_address and of the loop over the variants         *)
(***************************************************************************)
TransientError(response) == response \in {"timeout", "service_error"}

\* Seconds waited before the attempts 2..n: 2 * k after the k-th error
BackoffBefore(n) == IF n <= 1 THEN 0 ELSE IF n = 2 THEN 2 ELSE 6

\* C24: geocode_address calls the provider at most max_retries (3) times; it
\* retries only after a transient error, waiting 2 * k seconds after the k-th
\* one (k < 3); the third transient error, an answer without location and any
\* other exception return None at once; after a None the loop over the
\* variants goes on with the next variant of the same record
C24_RetriesBoundedThenNextVariant ==
    [][/\ (pc = "variants" /\ pc' = "called") =>
            LET r == geocode_returned'
                a == provider_answers'
            IN  /\ r.attempts \in 1..MAX_RETRIES
                /\ Len(a) = r.attempts
                /\ ~r.raised
                /\ \A k \in 1..(r.attempts - 1) : TransientError(a[k])
                /\ \A k \in 1..(MAX_RETRIES - 1) :
                      (k <= r.attempts /\ TransientError(a[k])) => r.attempts > k
                /\ r.slept = BackoffBefore(r.attempts)
                /\ a[r.attempts] = "location" => r.result = ProviderLocation(variants[vi])
                /\ a[r.attempts] # "location" => r.result = None
                /\ TransientError(a[r.attempts]) => r.attempts = MAX_RETRIES
       /\ (pc = "called" /\ geocode_returned.result = None /\ vi < Len(variants)) =>
            /\ pc' = "variants"
            /\ vi' = vi + 1
            /\ idx' = idx
            /\ variants' = variants
            /\ penalty_notices' = penalty_notices
            /\ failed_geocodings' = failed_geocodings
      ]_vars

\* The first variant of a record gave None and the loop went on; for the second
\* one two errors were waited out (2 and 4 seconds) and the third attempt found
\* nothing
C24_Witness ==
    /\ pc = "called"
    /\ vi = 2
    /\ Len(calls) = 2
    /\ provider_answers = <<"timeout", "service_error", "none">>
    /\ geocode_returned.attempts = 3
    /\ geocode_returned.slept = 6


(***************************************************************************)
(* Properties of a stopped and repeated geocoding pass                     *)
(***************************************************************************)
\* A record of the stop that has both coordinates and an address text with the
\* normalised address.full of record j
SharesGeocodedAddress(j) ==
    \E k \in 1..Len(stopped_notices) :
        /\ HasCoordinates(stopped_notices[k])
        /\ stopped_notices[k].full # <<>>
        /\ stopped_notices[j].full # <<>>
        /\ normalize_address(stopped_notices[k].full) = normalize_address(stopped_notices[j].full)

\* C25: in a run started on the records as they stood when an earlier run was
\* stopped between two records, every record that had coordinates at the stop
\* keeps them and is never sent to the geocoder, and every record with the
\* normalised address.full of such a record is never sent to the geocoder and,
\* if it lacked coordinates, gets them from the rebuilt cache
C25_ResumedRunKeepsAndReusesCoordinates ==
    run = 2 =>
        \A k \in 1..Len(stopped_notices) :
            /\ HasCoordinates(stopped_notices[k]) =>
                  /\ penalty_notices[k].lat = stopped_notices[k].lat
                  /\ penalty_notices[k].lon = stopped_notices[k].lon
                  /\ \A c \in 1..Len(calls) : calls[c].notice # k
            /\ SharesGeocodedAddress(k) =>
                  /\ \A c \in 1..Len(calls) : calls[c].notice # k
                  /\ k <= idx =>
                        /\ outcomes[k] = (IF HasCoordinates(stopped_notices[k])
                                           THEN "already_geocoded" ELSE "geocoded_from_cache")
                        /\ HasCoordinates(penalty_notices[k])

\* The second run is over; the first run had geocoded a record through the
\* provider before the stop, and the second run resolved from the cache a
\* record with the same normalised address that the first run had not reached
C25_Witness ==
    /\ run = 2
    /\ pc = "loop"
    /\ idx = Len(penalty_notices)
    /\ \E k, j \in 1..Len(stopped_notices) :
          /\ ~HasCoordinates(data_file[k])
          /\ HasCoordinates(stopped_notices[k])
          /\ ~HasCoordinates(stopped_notices[j])
          /\ normalize_address(stopped_notices[k].full) = normalize_address(stopped_notices[j].full)
          /\ outcomes[j] = "geocoded_from_cache"


(***************************************************************************)
(* Properties of the merge of downloaded or re-parsed notices              *)
(***************************************************************************)
\* The two entries agree on every field but lat and lon
SameButCoordinates(a, b) == \A field \in DOMAIN a \ {"lat", "lon"} : a[field] = b[field]

C27_TerminatesWithinInputLength ==
    /\ <>(pc = "returned")
    /\ [][scan_restarts' # scan_restarts =>
            /\ scan_pos' = 0
            /\ Len(scan_text') < Len(scan_text)]_vars
    /\ [](/\ scan_restarts <= Len(address_text)
          /\ Len(scan_found) <= Len(address_text)
          /\ Len(returned_variants) <= Len(address_text))

\* C27, amended: generate_address_variants returns for every input; every
\* restart of the scan is on a strictly shorter string; the restarts are at
\* most as many as the input has characters and the variants at most one more
\* than the restarts (the input itself is always a variant, also when empty)
C27_TerminatesWithinRestartsPlusOne ==
    /\ <>(pc = "returned")
    /\ [][scan_restarts' # scan_restarts =>
            /\ scan_pos' = 0
            /\ Len(scan_text') < Len(scan_text)]_vars
    /\ [](/\ scan_restarts <= Len(address_text)
          /\ Len(scan_found) <= scan_restarts + 1
          /\ Len(returned_variants) <= scan_restarts + 1)

\* A call that restarted the scan twice has returned three variants
C27_Witness ==
    /\ pc = "returned"
    /\ scan_restarts = 2
    /\ Len(returned_variants) = 3


(***************************************************************************)
(* Properties of a geocoding pass restricted by --id or --slug             *)
(***************************************************************************)
\* C30: in a run restricted by --id or --slug only the selected records are
\* sent to the geocoder or changed, and the save writes every record outside
\* the selection as it was in the file
C30_UnselectedRecordsSurviveTheSave ==
    [][/\ \A c \in 1..Len(calls') : notice_keys'[calls'[c].notice] \in Range(notice_keys')
       /\ (pc = "loop" /\ pc' = "done") =>
            \A key \in DOMAIN data_file :
                key \notin Range(notice_keys) =>
                    /\ key \in DOMAIN data_file'
                    /\ data_file'[key] = data_file[key]
      ]_vars


====
